---- MODULE Spec2Model ----
(***************************************************************************)
(* State-machine model of the multipass hardware abstraction for monome    *)
(* eurorack modules (src/monome_euro/main.c): voice routing, device mute,  *)
(* note dispatch and the per-family protocol encoders, the TELEXo          *)
(* dirty-parameter flush and the timed-event registry.                     *)
(*                                                                         *)
(* Conventions                                                             *)
(*  - voice_maps is the memory image of u8 voice_maps[32][10][1] as the    *)
(*    set of its set bits <<cell, bit>>, cell the byte offset              *)
(*    voice * 10 + device + (output >> 3) and bit = output & 7, so that an *)
(*    index [output >> 3] = 1 lands in the next (voice, device) byte       *)
(*    exactly as the compiled array access does;                           *)
(*  - s16 / u16 / u8 values are integers, wrapped by S16 / U16 / U8 where  *)
(*    the C code narrows them;                                             *)
(*  - out is the sequence of output actions (bus transactions, CV writes,  *)
(*    gate writes) the last operation produced, calls the sequence of      *)
(*    encoder invocations the last note dispatch made, last_op the last    *)
(*    operation with its arguments.                                        *)
(***************************************************************************)
EXTENDS Integers, Sequences, FiniteSets, TLC

\* ---------------------------------------------------------------------------
\* program constants

MAX_LEVEL == 16383

VOICE_CV_GATE == 0
VOICE_ER301 == 1
VOICE_JF == 2
VOICE_TXO_NOTE == 3
VOICE_TXO_CV_GATE == 4
VOICE_DISTING_EX == 5
VOICE_EX_MIDI_1 == 6
VOICE_EX_MIDI_CH == 7
VOICE_I2C2MIDI_1 == 8
VOICE_I2C2MIDI_CH == 9
MAX_DEVICE_COUNT == 10

TIMED_EVENT == 0
I2C_RECEIVED == 48
MAX_EVENT_DATA_LENGTH == 16

MAX_CV_COUNT == 4
MAX_GATE_COUNT == 8
TIMED_EVENT_COUNT == 100
MAX_VOICES_COUNT == 32
MAX_OUTPUT_COUNT == 8
MAX_ER301_OUTPUT_COUNT == 16
MAX_JF_OUTPUT_COUNT == 6
MAX_TXO_OUTPUT_COUNT == 16
MAX_DISTING_EX_OUTPUT_COUNT == 32
MAX_EX_MIDI_1_OUTPUT_COUNT == 16
MAX_EX_MIDI_CH_OUTPUT_COUNT == 16
MAX_I2C2MIDI_1_OUTPUT_COUNT == 16
MAX_I2C2MIDI_CH_OUTPUT_COUNT == 16
MAX_TXI_COUNT == 16
MAX_ER301_COUNT == 100

TO_TR == 0
TO_CV_SET == 17
TO_OSC_SET == 65
TO_ENV_ACT == 96
TO_ENV == 109
TO_ENV_ATT == 97
TO_ENV_DEC == 100
TO_OSC_WAVE == 74
I2C2MIDI == 63

\* Just Friends command bytes (ii.h of the skeleton library, not part of src/)
JF_TR == 1
JF_MODE == 6
JF_VOX == 8

\* the build modelled is the teletype one (monome_euro/teletype/module.h)
\* polling intervals, in ticks
ADC_POLL_INTERVAL == 100
INPUTS_POLL_INTERVAL == 50
HID_POLL_INTERVAL == 48
MIDI_POLL_INTERVAL == 8
I2C_REFRESH_INTERVAL == 50

\* events delivered to process_event
MAIN_CLOCK_RECEIVED == 1
MIDI_CONNECTED == 80
GRID_CONNECTED == 64
GRID_KEY_PRESSED == 65
GRID_KEY_HELD == 66
ARC_CONNECTED == 67
GRID_HOLD_TIME == 750
KEYBOARD_CONNECTED == 96
SHNTH_CONNECTED == 98

\* _POLL_INPUTS of the teletype build
POLL_INPUTS == 1

\* hid_devices
hid_keyboard == 0
hid_shnth == 1
hid_ps3 == 2

HARDWARE_CV_OUTPUT_COUNT == 4
HARDWARE_GATE_OUTPUT_COUNT == 4

\* ---------------------------------------------------------------------------
\* C integer types

U8(x) == x % 256
U16(x) == x % 65536
S16(x) == ((x + 32768) % 65536) - 32768

Max(a, b) == IF a > b THEN a ELSE b
Min(a, b) == IF a < b THEN a ELSE b

\* ---------------------------------------------------------------------------
\* state

VARIABLES
    voice_maps, device_on, last_pitch,
    cv_transpose, er301_transpose, jf_transpose, txo_transpose,
    disting_ex_transpose, ex_midi_1_transpose, ex_midi_ch_transpose,
    i2c2midi_1_transpose, i2c2midi_ch_transpose,
    er301_max_volume, jf_max_volume, txo_max_volume, disting_ex_max_volume,
    ex_midi_1_max_volume, ex_midi_ch_max_volume,
    i2c2midi_1_max_volume, i2c2midi_ch_max_volume,
    txo_mode, txo_refresh, cv_values,
    is_i2c_leader, i2c_follower_address, jf_mode,
    event_timers, control_initialized,
    tcTicks, adc_timer, hid_poll_timer, inputs_poll_timer, i2c_refresh_timer,
    midi_poll_timer, midi_connected, hid_connected, hid_device, events,
    grid, grid_hold_timer,
    last_op, out, calls, bus,
    prev_op, pre1, pre2, sounding, written, reg, polled, conv, played,
    transposed, ceilings

routing == <<voice_maps, device_on>>
transposes == <<cv_transpose, er301_transpose, jf_transpose, txo_transpose,
                disting_ex_transpose, ex_midi_1_transpose, ex_midi_ch_transpose,
                i2c2midi_1_transpose, i2c2midi_ch_transpose>>
max_volumes == <<er301_max_volume, jf_max_volume, txo_max_volume,
                 disting_ex_max_volume, ex_midi_1_max_volume, ex_midi_ch_max_volume,
                 i2c2midi_1_max_volume, i2c2midi_ch_max_volume>>
i2c_role == <<is_i2c_leader, i2c_follower_address>>
timers == <<event_timers, control_initialized>>
poll_timers == <<adc_timer, hid_poll_timer, inputs_poll_timer, i2c_refresh_timer,
                 midi_poll_timer>>
connections == <<midi_connected, hid_connected, hid_device>>
monome == <<grid, grid_hold_timer>>
scheduler == <<tcTicks, poll_timers, connections, events, monome>>

vars == <<voice_maps, device_on, last_pitch, transposes, max_volumes, scheduler,
          txo_mode, txo_refresh, cv_values, i2c_role, jf_mode, timers,
          last_op, out, calls, bus, prev_op, pre1, pre2, sounding, written, reg,
          polled, conv, played, transposed, ceilings>>

\* history kept for the claims about sequences of operations. prev_op is the
\* operation before last_op, pre1 the routing state (voice_maps, device_on)
\* last_op started from and pre2 the one prev_op started from
routing_history == <<prev_op, pre1, pre2>>

\* sounding[v] is the sequence of targets the most recent note_on_v of voice v
\* served; written is what the application wrote to the batched TELEXo
\* parameters since the last flush and what was pending at the last flush;
\* reg is the life of the latest registration of the observed timer index;
\* polled is, per polled subsystem, the tick count of its latest run and the
\* advance of ticks between its two latest runs; conv is a conversion
\* function, its arguments and, once applied, its results; played[v] is the
\* pitch and volume of the latest note_on_v of voice v and whether the voice
\* reached any output then; transposed[<<f, o>>] is the transpose and
\* ceilings[<<f, o>>] the max volume last set for output o of family f
observations == <<polled, conv, played, transposed, ceilings>>
history == <<routing_history, sounding, written, reg, observations>>

\* ---------------------------------------------------------------------------
\* voice routing table

\* number of u8 cells of voice_maps[32][10][MAX_OUTPUT_COUNT >> 3]
VoiceMapsSize == MAX_VOICES_COUNT * MAX_DEVICE_COUNT * (MAX_OUTPUT_COUNT \div 8)

\* &voice_maps[voice][device][index] as an offset into the array's memory
VoiceMapsCell(voice, device, index) ==
    (voice * MAX_DEVICE_COUNT + device) * (MAX_OUTPUT_COUNT \div 8) + index

\* _is_voice_mapped
_is_voice_mapped(voice, device, output) ==
    /\ <<VoiceMapsCell(voice, device, output \div 8), output % 8>> \in voice_maps
    /\ device_on[device] # 0

\* the statement part of map_voice: the new routing table
MapVoiceMaps(voice, device, output, on) ==
    IF voice >= MAX_VOICES_COUNT \/ device >= MAX_DEVICE_COUNT \/ output > MAX_OUTPUT_COUNT
    THEN voice_maps
    ELSE LET cell == VoiceMapsCell(voice, device, output \div 8)
         IN  IF on # 0
             THEN voice_maps \cup {<<cell, output % 8>>}
             ELSE voice_maps \ {<<cell, output % 8>>}

\* mutant of MuteDeviceOn: the flag written is that of every family
MuteDeviceOn_AllFamilies(device, mute) ==
    IF device >= MAX_DEVICE_COUNT
    THEN device_on
    ELSE [d \in DOMAIN device_on |-> IF mute # 0 THEN 0 ELSE 1]

\* the statement part of mute_device: the new device_on
MuteDeviceOn(device, mute) ==
    IF device >= MAX_DEVICE_COUNT
    THEN device_on
    ELSE [device_on EXCEPT ![device] = IF mute # 0 THEN 0 ELSE 1]

\* ---------------------------------------------------------------------------
\* output actions
\*
\* An encoder works on a record st of the state it may change and the output
\* actions produced so far:
\*   st.leader, st.jf_mode, st.txo_mode, st.cv_values, st.out, st.calls, st.via
\* A bus address is <<base name, offset>>; the numeric base addresses live in
\* ii.h of the skeleton library.

Hi(value) == U16(value) \div 256
Lo(value) == U16(value) % 256

\* st.via is the <<device, output>> the note dispatch is serving, NoTarget when
\* the encoder is called directly
NoTarget == <<MAX_DEVICE_COUNT, 0>>

Emit(st, kind, addr, data) ==
    [st EXCEPT !.out = Append(@, [kind |-> kind, addr |-> addr, data |-> data,
                                   via |-> st.via])]

\* a call of _i2c_leader_tx or _i2c_leader_rx is recorded in st.bus with the
\* value it returned and whether it reached the primitive of the library
Returned(st, fn, called, ret) ==
    [st EXCEPT !.bus = Append(@, [fn |-> fn, called |-> called, ret |-> ret])]

\* the primitives i2c_leader_tx and i2c_leader_rx of the library return the
\* status of the transfer, 0 on a healthy bus, which no caller reads

\* an _i2c_leader_tx that transmits whatever the role
_i2c_leader_tx_AnyRole(st, addr, data) ==
    Returned(Emit(st, "i2c", addr, data), "_i2c_leader_tx", TRUE, 0)

\* _i2c_leader_tx
_i2c_leader_tx(st, addr, data) ==
    IF st.leader = 0
    THEN Returned(st, "_i2c_leader_tx", FALSE, 0)
    ELSE Returned(Emit(st, "i2c", addr, data), "_i2c_leader_tx", TRUE, 0)

\* _i2c_leader_rx: the bytes read are those the device replies with
_i2c_leader_rx(st, addr, reply) ==
    IF st.leader = 0
    THEN Returned(st, "_i2c_leader_rx", FALSE, 0)
    ELSE Returned(Emit(st, "i2c_rx", addr, reply), "_i2c_leader_rx", TRUE, 0)

\* _set_cv
_set_cv(st, output, value) ==
    IF output >= HARDWARE_CV_OUTPUT_COUNT \/ output >= MAX_CV_COUNT
    THEN st
    ELSE Emit([st EXCEPT !.cv_values[output] = value], "cv", <<"DAC", output>>, <<value>>)

\* _set_gate
_set_gate(st, output, on) ==
    IF output >= HARDWARE_GATE_OUTPUT_COUNT \/ output >= MAX_GATE_COUNT
    THEN st
    ELSE Emit(st, "gate", <<"GATE", output>>, <<IF on # 0 THEN 1 ELSE 0>>)

\* _send_note; cv_transpose[output] is read for output up to 7, the value
\* read past the 4 entries only ever reaches _set_cv, which rejects it
_send_note(st, output, pitch, volume) ==
    IF volume # 0
    THEN LET tr == IF output < MAX_CV_COUNT THEN cv_transpose[output] ELSE 0
             p == S16(pitch + tr)
         IN  _set_gate(_set_cv(st, output, p), output, 1)
    ELSE _set_gate(st, output, 0)

\* a scaling whose product is kept in 16 bits
ScaleVolume_U16(volume, max_volume) == U16(volume * max_volume) \div MAX_LEVEL

\* u32 vol = (u32)volume * (u32)max_volume / MAX_LEVEL; the product of two u16
\* values fits the u32, so nothing wraps
ScaleVolume(volume, max_volume) == (volume * max_volume) \div MAX_LEVEL

\* _set_er301_cv
_set_er301_cv(st, output, value) ==
    IF output >= MAX_ER301_COUNT
    THEN st
    ELSE _i2c_leader_tx(st, <<"ER301_1", 0>>, <<TO_CV_SET, output, Hi(value), Lo(value)>>)

\* _set_er301_gate
_set_er301_gate(st, output, on) ==
    IF output >= MAX_ER301_COUNT
    THEN st
    ELSE LET d == <<TO_TR, output, 0, on % 2>>
         IN  _i2c_leader_tx(_i2c_leader_tx(st, <<"ER301_1", 0>>, d), <<"ER301_1", 0>>, d)

\* _send_er301_note
_send_er301_note(st, output, pitch, volume) ==
    IF output >= MAX_ER301_OUTPUT_COUNT
    THEN st
    ELSE IF volume # 0
         THEN LET vol == ScaleVolume(volume, er301_max_volume[output])
                  p == S16(pitch + er301_transpose[output] - 3277)
                  s1 == _set_er301_cv(st, output, p)
                  s2 == _set_er301_cv(s1, U8(output + MAX_ER301_OUTPUT_COUNT), S16(vol))
              IN  _set_er301_gate(s2, output, 1)
         ELSE _set_er301_gate(st, output, 0)

\* _set_jf_mode
_set_jf_mode(st, mode) ==
    IF mode # 0 /\ st.jf_mode = 0
    THEN _i2c_leader_tx([st EXCEPT !.jf_mode = 1], <<"JF_ADDR", 0>>, <<JF_MODE, 1>>)
    ELSE IF mode = 0 /\ st.jf_mode # 0
         THEN _i2c_leader_tx([st EXCEPT !.jf_mode = 0], <<"JF_ADDR", 0>>, <<JF_MODE, 0>>)
         ELSE st

\* _set_jf_gate
_set_jf_gate(st, output, on) ==
    IF output >= MAX_JF_OUTPUT_COUNT
    THEN st
    ELSE _i2c_leader_tx(st, <<"JF_ADDR", 0>>, <<JF_TR, U8(output + 1), on % 2>>)

\* _send_jf_note
_send_jf_note(st, output, pitch, volume) ==
    IF output >= MAX_JF_OUTPUT_COUNT
    THEN st
    ELSE LET vol == ScaleVolume(volume, jf_max_volume[output])
             p == S16(pitch + jf_transpose[output] - 3277)
             d == <<JF_VOX, U8(output + 1), Hi(p), Lo(p), Hi(vol), Lo(vol)>>
         IN  _set_jf_gate(_i2c_leader_tx(st, <<"JF_ADDR", 0>>, d), output,
                       IF vol > 0 THEN 1 ELSE 0)

\* a _send_txo_command for devices of eight ports
_send_txo_command_EightPorts(st, output, command, value) ==
    IF output >= MAX_TXO_OUTPUT_COUNT
    THEN st
    ELSE _i2c_leader_tx(st, <<"TELEXO", output \div 8>>,
                     <<command, output % 8, Hi(value), Lo(value)>>)

\* _send_txo_command
_send_txo_command(st, output, command, value) ==
    IF output >= MAX_TXO_OUTPUT_COUNT
    THEN st
    ELSE _i2c_leader_tx(st, <<"TELEXO", output \div 4>>,
                     <<command, output % 4, Hi(value), Lo(value)>>)

\* _set_txo_mode
_set_txo_mode(st, output, mode) ==
    IF output >= MAX_TXO_OUTPUT_COUNT
    THEN st
    ELSE LET s1 == IF mode # 0
                   THEN _send_txo_command(st, output, TO_ENV_ACT, 1)
                   ELSE _send_txo_command(_send_txo_command(st, output, TO_ENV_ACT, 0),
                                       output, TO_OSC_SET, 0)
         IN  [s1 EXCEPT !.txo_mode[output] = mode]

\* _send_txo_note
_send_txo_note(st, output, pitch, volume) ==
    IF output >= MAX_TXO_OUTPUT_COUNT
    THEN st
    ELSE LET s1 == _set_txo_mode(st, output, 1)
         IN  IF volume # 0
             THEN LET vol == ScaleVolume(volume, txo_max_volume[output])
                      p == S16(pitch + txo_transpose[output] + 4915)
                      s2 == _send_txo_command(s1, output, TO_OSC_SET, p)
                      s3 == _send_txo_command(s2, output, TO_CV_SET, S16(vol))
                  IN  _send_txo_command(s3, output, TO_ENV, 1)
             ELSE _send_txo_command(s1, output, TO_ENV, 0)

\* _set_txo_cv without the switch to oscillator mode
_set_txo_cv_KeepMode(st, output, value) ==
    _send_txo_command(st, output, TO_CV_SET, value)

\* _set_txo_cv
_set_txo_cv(st, output, value) ==
    _send_txo_command(_set_txo_mode(st, output, 0), output, TO_CV_SET, value)

\* _set_txo_gate
_set_txo_gate(st, output, on) ==
    IF output >= MAX_TXO_OUTPUT_COUNT
    THEN st
    ELSE _send_txo_command(_send_txo_command(st, output, TO_ENV, 0), output, TO_TR, on % 2)

\* note_to_pitch
note_to_pitch(note) ==
    LET pitch == (note * 16384) \div 60
    IN  U16((IF pitch > 1 THEN 1 ELSE 0) + (pitch % 2))

\* pitch_to_note; the u16 parameter receives the s16 pitch of the encoders
pitch_to_note(pitch) ==
    LET note == (U16(pitch) * 240) \div 16384
    IN  U16((IF note > 1 THEN 1 ELSE 0) + (note % 2))

\* _send_disting_ex_note
_send_disting_ex_note(st, output, pitch, volume) ==
    IF output >= MAX_DISTING_EX_OUTPUT_COUNT
    THEN st
    ELSE LET vol == ScaleVolume(volume, disting_ex_max_volume[output])
             p == S16(pitch + disting_ex_transpose[output] - 3277)
             n == U8(pitch_to_note(p) + 48)
             note == IF n > 127 THEN 127 ELSE n
             address == <<"DISTING_EX_1", output \div 8>>
             channel == output % 8
             s1 == _i2c_leader_tx(st, address, <<106, channel, note>>)
         IN  IF vol # 0
             THEN _i2c_leader_tx(_i2c_leader_tx(s1, address, <<104, channel, note, Hi(p), Lo(p)>>),
                              address, <<105, channel, note, Hi(vol), Lo(vol)>>)
             ELSE s1

\* _send_ex_midi_1_note
_send_ex_midi_1_note(st, output, pitch, volume) ==
    IF output >= MAX_EX_MIDI_1_OUTPUT_COUNT
    THEN st
    ELSE LET vol == ScaleVolume(volume, ex_midi_1_max_volume[output])
             p == S16(pitch + ex_midi_1_transpose[output])
             note == U8(pitch_to_note(p))
         IN  IF vol # 0
             THEN _i2c_leader_tx(st, <<"DISTING_EX_1", 0>>, <<79, 144, note, U8(U16(vol) \div 128)>>)
             ELSE _i2c_leader_tx(st, <<"DISTING_EX_1", 0>>, <<79, 128, note, 0>>)

\* _send_ex_midi_ch_note
_send_ex_midi_ch_note(st, output, pitch, volume) ==
    IF output >= MAX_EX_MIDI_CH_OUTPUT_COUNT
    THEN st
    ELSE LET vol == ScaleVolume(volume, ex_midi_ch_max_volume[output])
             p == S16(pitch + ex_midi_ch_transpose[output])
             note == U8(pitch_to_note(p))
         IN  IF vol # 0
             THEN _i2c_leader_tx(st, <<"DISTING_EX_1", 0>>,
                              <<79, U8(144 + output), note, U8(U16(vol) \div 128)>>)
             ELSE _i2c_leader_tx(st, <<"DISTING_EX_1", 0>>, <<79, U8(128 + output), note, 0>>)

\* _send_i2c2midi_1_note (bounds and max volume are those of the EX MIDI 1 family)
_send_i2c2midi_1_note(st, output, pitch, volume) ==
    IF output >= MAX_EX_MIDI_1_OUTPUT_COUNT
    THEN st
    ELSE LET vol == ScaleVolume(volume, ex_midi_1_max_volume[output])
         IN  IF vol # 0
             THEN _i2c_leader_tx(st, <<"I2C2MIDI", 0>>,
                              <<20, 0, U8(output + 10), U8(U16(vol) \div 128)>>)
             ELSE _i2c_leader_tx(st, <<"I2C2MIDI", 0>>, <<21, 0, U8(output + 20)>>)

\* _send_i2c2midi_ch_note (bounds and max volume are those of the EX MIDI ch family)
_send_i2c2midi_ch_note(st, output, pitch, volume) ==
    IF output >= MAX_EX_MIDI_CH_OUTPUT_COUNT
    THEN st
    ELSE LET vol == ScaleVolume(volume, ex_midi_ch_max_volume[output])
             p == S16(pitch + i2c2midi_ch_transpose[output])
             note == U8(pitch_to_note(p))
         IN  IF vol # 0
             THEN _i2c_leader_tx(st, <<"I2C2MIDI", 0>>,
                              <<20, output, note, U8(U16(vol) \div 128)>>)
             ELSE _i2c_leader_tx(st, <<"I2C2MIDI", 0>>, <<21, output, note>>)

\* ---------------------------------------------------------------------------
\* note dispatch

\* the families in the order the loops of note_on_v and note_off visit them
DeviceOrder ==
    <<VOICE_CV_GATE, VOICE_ER301, VOICE_JF, VOICE_TXO_NOTE, VOICE_TXO_CV_GATE,
      VOICE_DISTING_EX, VOICE_EX_MIDI_1, VOICE_EX_MIDI_CH, VOICE_I2C2MIDI_1,
      VOICE_I2C2MIDI_CH>>

\* every <<device, output>> the loops test, in the order they test it:
\* for each family, output = 0 .. MAX_OUTPUT_COUNT - 1
LoopTargets ==
    [i \in 1..(Len(DeviceOrder) * MAX_OUTPUT_COUNT) |->
        <<DeviceOrder[((i - 1) \div MAX_OUTPUT_COUNT) + 1], (i - 1) % MAX_OUTPUT_COUNT>>]

\* the targets whose loop body runs for the voice
Targets(voice) ==
    SelectSeq(LoopTargets, LAMBDA t : _is_voice_mapped(voice, t[1], t[2]))

\* a call a loop body makes for a mapped target: the invocation is recorded in
\* st.calls and the output actions that follow are tagged with the target
Call(st, t, fn, args) ==
    [st EXCEPT !.via = t,
               !.calls = Append(@, [device |-> t[1], output |-> t[2],
                                    fn |-> fn, args |-> args])]

\* Call, with the arguments of a note encoder
Note(st, device, output, fn, pitch, volume) ==
    Call(st, <<device, output>>, fn, <<output, pitch, volume>>)

\* the body of the loop of note_on_v for one family
EncodeOn(st, device, output, pitch, volume) ==
    CASE device = VOICE_CV_GATE ->
            _send_note(Note(st, device, output, "_send_note", pitch, volume),
                       output, pitch, volume)
      [] device = VOICE_ER301 ->
            _send_er301_note(Note(st, device, output, "_send_er301_note", pitch, volume),
                             output, pitch, volume)
      [] device = VOICE_JF ->
            _send_jf_note(Note(st, device, output, "_send_jf_note", pitch, volume),
                          output, pitch, volume)
      [] device = VOICE_TXO_NOTE ->
            _send_txo_note(Note(st, device, output, "_send_txo_note", pitch, volume),
                           output, pitch, volume)
      [] device = VOICE_TXO_CV_GATE ->
            LET t == <<device, output>>
                cv == _set_txo_cv(Call(st, t, "_set_txo_cv", <<output, pitch>>),
                                  output, pitch)
            IN  _set_txo_gate(Call(cv, t, "_set_txo_gate", <<output, 1>>), output, 1)
      [] device = VOICE_DISTING_EX ->
            _send_disting_ex_note(
                Note(st, device, output, "_send_disting_ex_note", pitch, volume),
                output, pitch, volume)
      [] device = VOICE_EX_MIDI_1 ->
            _send_ex_midi_1_note(
                Note(st, device, output, "_send_ex_midi_1_note", pitch, volume),
                output, pitch, volume)
      [] device = VOICE_EX_MIDI_CH ->
            _send_ex_midi_ch_note(
                Note(st, device, output, "_send_ex_midi_ch_note", pitch, volume),
                output, pitch, volume)
      [] device = VOICE_I2C2MIDI_1 ->
            _send_i2c2midi_1_note(
                Note(st, device, output, "_send_i2c2midi_1_note", pitch, volume),
                output, pitch, volume)
      [] device = VOICE_I2C2MIDI_CH ->
            _send_i2c2midi_ch_note(
                Note(st, device, output, "_send_i2c2midi_ch_note", pitch, volume),
                output, pitch, volume)

\* the body of the loop of note_off for one family: every family but TELEXo
\* CV/gate calls the encoder note_on_v calls, with last_pitch[voice] and volume 0
EncodeOff(st, device, output, pitch) ==
    IF device = VOICE_TXO_CV_GATE
    THEN _set_txo_gate(Call(st, <<device, output>>, "_set_txo_gate", <<output, 0>>),
                       output, 0)
    ELSE EncodeOn(st, device, output, pitch, 0)

\* a dispatch that gives up at the first output that sends nothing
RECURSIVE RunOn_StopAtFailure(_, _, _, _)
RunOn_StopAtFailure(st, targets, pitch, volume) ==
    IF targets = <<>>
    THEN st
    ELSE LET t == Head(targets)
             s1 == EncodeOn(st, t[1], t[2], pitch, volume)
         IN  IF s1.out = st.out
             THEN s1
             ELSE RunOn_StopAtFailure(s1, Tail(targets), pitch, volume)

RECURSIVE RunOn(_, _, _, _)
RunOn(st, targets, pitch, volume) ==
    IF targets = <<>>
    THEN st
    ELSE LET t == Head(targets)
         IN  RunOn(EncodeOn(st, t[1], t[2], pitch, volume), Tail(targets), pitch, volume)

RECURSIVE RunOff(_, _, _)
RunOff(st, targets, pitch) ==
    IF targets = <<>>
    THEN st
    ELSE LET t == Head(targets)
         IN  RunOff(EncodeOff(st, t[1], t[2], pitch), Tail(targets), pitch)

\* the state an operation starts from, with nothing emitted yet
Start ==
    [leader |-> is_i2c_leader, jf_mode |-> jf_mode, txo_mode |-> txo_mode,
     cv_values |-> cv_values, out |-> <<>>, calls |-> <<>>, bus |-> <<>>,
     via |-> NoTarget]

\* the loops of note_on_v, from the current state
NoteOnRun(voice, pitch, volume) == RunOn(Start, Targets(voice), pitch, volume)

\* a note_off that releases the outputs the last note on of the voice reached
NoteOffRun_AtNoteOn(voice, pitch) == RunOff(Start, sounding[voice], pitch)

\* the loops of note_off, from the current state, with last_pitch[voice] = pitch
NoteOffRun(voice, pitch) == RunOff(Start, Targets(voice), pitch)

\* ---------------------------------------------------------------------------
\* initial state: init_state, then init_hardware and initialize_control

\* an initial routing table that maps every voice to the first output
InitVoiceMaps_FirstOutput ==
    {<<VoiceMapsCell(i, VOICE_CV_GATE, 0), 0>> :
        i \in 0..(Max(HARDWARE_CV_OUTPUT_COUNT, HARDWARE_GATE_OUTPUT_COUNT) - 1)}

\* the routing table init_state builds: all clear, then
\* map_voice(i, VOICE_CV_GATE, i, 1) for i < max(cv outputs, gate outputs).
InitVoiceMaps ==
    {<<VoiceMapsCell(i, VOICE_CV_GATE, 0), i>> :
        i \in 0..(Max(HARDWARE_CV_OUTPUT_COUNT, HARDWARE_GATE_OUTPUT_COUNT) - 1)}

InitTxoRefresh ==
    [i \in 0..(MAX_TXO_OUTPUT_COUNT - 1) |->
        [attack_dirty |-> 0, decay_dirty |-> 0, waveform_dirty |-> 0,
         attack |-> 0, decay |-> 0, waveform |-> 0]]

\* a softTimer_t of the skeleton library with the repeat flag beside it
InitEventTimers ==
    [i \in 0..(TIMED_EVENT_COUNT - 1) |->
        [linked |-> FALSE, ticksRemain |-> 0, ticks |-> 0, repeat |-> 0]]

NoOp == [op |-> "init", args |-> <<>>]

\* nothing written to a batched parameter: no value, no write counted
Unwritten == [n |-> 0, last |-> 0]

NothingWritten ==
    [pend |-> [f \in {"attack", "decay", "waveform"} |-> Unwritten],
     sent |-> [f \in {"attack", "decay", "waveform"} |-> Unwritten],
     dropped |-> [f \in {"attack", "decay", "waveform"} |-> FALSE]]

\* the polled subsystems of process_system_events, in the order it serves them
Subsystems == <<"adc_convert", "poll_inputs", "midi_read", "process_hid", "refresh_i2c">>

\* no subsystem has run yet
NeverPolled ==
    [s \in {Subsystems[i] : i \in DOMAIN Subsystems} |-> [n |-> 0, at |-> 0, gap |-> 0]]

\* no transpose set yet: 0 for output 0 of every family
NeverTransposed == [t \in (0..(MAX_DEVICE_COUNT - 1)) \X {0} |-> 0]

\* no max volume set yet: MAX_LEVEL for output 0 of every family
NeverLimited == [t \in (0..(MAX_DEVICE_COUNT - 1)) \X {0} |-> MAX_LEVEL]

\* no note on yet
NeverPlayed ==
    [v \in 0..(MAX_VOICES_COUNT - 1) |-> [pitch |-> 0, volume |-> 0, mapped |-> FALSE]]

\* no registration of the observed timer index yet
NoRegistration ==
    [added |-> FALSE, live |-> FALSE, age |-> 0, ms |-> 0, repeat |-> 0,
     fires |-> 0, total |-> 0, clean |-> TRUE, replaced |-> FALSE, old |-> 0,
     stopped_at |-> 0, due |-> 0, period |-> 0, expect |-> FALSE,
     updated |-> FALSE, after |-> 0, key |-> <<>>, others |-> 0]

\* what init_state assigns, but for control_initialized
init_state_Values ==
    /\ voice_maps = InitVoiceMaps
    /\ device_on = [d \in 0..(MAX_DEVICE_COUNT - 1) |-> 1]
    /\ last_pitch = [v \in 0..(MAX_VOICES_COUNT - 1) |-> 0]
    /\ cv_transpose = [o \in 0..(MAX_CV_COUNT - 1) |-> 0]
    /\ er301_transpose = [o \in 0..(MAX_ER301_OUTPUT_COUNT - 1) |-> 0]
    /\ jf_transpose = [o \in 0..(MAX_JF_OUTPUT_COUNT - 1) |-> 0]
    /\ txo_transpose = [o \in 0..(MAX_TXO_OUTPUT_COUNT - 1) |-> 0]
    /\ disting_ex_transpose = [o \in 0..(MAX_DISTING_EX_OUTPUT_COUNT - 1) |-> 0]
    /\ ex_midi_1_transpose = [o \in 0..(MAX_EX_MIDI_1_OUTPUT_COUNT - 1) |-> 0]
    /\ ex_midi_ch_transpose = [o \in 0..(MAX_EX_MIDI_CH_OUTPUT_COUNT - 1) |-> 0]
    /\ i2c2midi_1_transpose = [o \in 0..(MAX_I2C2MIDI_1_OUTPUT_COUNT - 1) |-> 0]
    /\ i2c2midi_ch_transpose = [o \in 0..(MAX_I2C2MIDI_CH_OUTPUT_COUNT - 1) |-> 0]
    /\ er301_max_volume = [o \in 0..(MAX_ER301_OUTPUT_COUNT - 1) |-> MAX_LEVEL]
    /\ jf_max_volume = [o \in 0..(MAX_JF_OUTPUT_COUNT - 1) |-> MAX_LEVEL]
    /\ txo_max_volume = [o \in 0..(MAX_TXO_OUTPUT_COUNT - 1) |-> MAX_LEVEL]
    /\ disting_ex_max_volume = [o \in 0..(MAX_DISTING_EX_OUTPUT_COUNT - 1) |-> MAX_LEVEL]
    /\ ex_midi_1_max_volume = [o \in 0..(MAX_EX_MIDI_1_OUTPUT_COUNT - 1) |-> MAX_LEVEL]
    /\ ex_midi_ch_max_volume = [o \in 0..(MAX_EX_MIDI_CH_OUTPUT_COUNT - 1) |-> MAX_LEVEL]
    /\ i2c2midi_1_max_volume = [o \in 0..(MAX_I2C2MIDI_1_OUTPUT_COUNT - 1) |-> MAX_LEVEL]
    /\ i2c2midi_ch_max_volume = [o \in 0..(MAX_I2C2MIDI_CH_OUTPUT_COUNT - 1) |-> MAX_LEVEL]
    /\ txo_mode = [o \in 0..(MAX_TXO_OUTPUT_COUNT - 1) |-> 2]
    /\ txo_refresh = InitTxoRefresh
    /\ cv_values = [o \in 0..(MAX_CV_COUNT - 1) |-> 0]
    /\ is_i2c_leader = 0
    /\ i2c_follower_address = 0
    /\ jf_mode = 0
    /\ event_timers = InitEventTimers
    /\ tcTicks = 0
    /\ adc_timer = 0
    /\ hid_poll_timer = 0
    /\ inputs_poll_timer = 0
    /\ i2c_refresh_timer = 0
    /\ midi_poll_timer = 0
    /\ midi_connected = 0
    /\ hid_connected = 0
    /\ hid_device = hid_keyboard
    /\ events = <<>>
    /\ grid = [connected |-> 0, held_x |-> 0, held_y |-> 0]
    /\ grid_hold_timer = [linked |-> FALSE, ticksRemain |-> 0, ticks |-> 0]
    /\ last_op = NoOp
    /\ out = <<>>
    /\ calls = <<>>
    /\ bus = <<>>
    /\ prev_op = NoOp
    /\ pre1 = <<voice_maps, device_on>>
    /\ pre2 = <<voice_maps, device_on>>
    /\ sounding = [v \in 0..(MAX_VOICES_COUNT - 1) |-> <<>>]
    /\ written = NothingWritten
    /\ reg = NoRegistration
    /\ polled = NeverPolled
    /\ played = NeverPlayed
    /\ transposed = NeverTransposed
    /\ ceilings = NeverLimited

\* no conversion is under observation
NoConversion == [fn |-> "none", args |-> <<>>, res |-> <<>>, done |-> FALSE]

\* init_state: nothing is delivered to the application yet
init_state == init_state_Values /\ control_initialized = 0

\* the state the main loop starts from: initialize_control has run
Init == init_state_Values /\ control_initialized = 1 /\ conv = NoConversion

\* the state main is in when it enables the interrupts
InitBoot == init_state /\ conv = NoConversion

\* ---------------------------------------------------------------------------
\* operations of interface.h

Op(name, args) == [op |-> name, args |-> args]

\* map_voice
map_voice(voice, device, output, on) ==
    /\ voice_maps' = MapVoiceMaps(voice, device, output, on)
    /\ out' = <<>>
    /\ bus' = <<>>
    /\ calls' = <<>>
    /\ UNCHANGED <<device_on, last_pitch, transposes, max_volumes, scheduler, txo_mode,
                   txo_refresh, cv_values, i2c_role, jf_mode, timers>>

\* mute_device
mute_device(device, mute) ==
    /\ device_on' = MuteDeviceOn(device, mute)
    /\ out' = <<>>
    /\ bus' = <<>>
    /\ calls' = <<>>
    /\ UNCHANGED <<voice_maps, last_pitch, transposes, max_volumes, scheduler, txo_mode,
                   txo_refresh, cv_values, i2c_role, jf_mode, timers>>

\* a note_on_v that keeps the pitch of the voice only when the note sounds
note_on_v_PitchWhenSounding(voice, pitch, volume) ==
    /\ IF voice >= MAX_VOICES_COUNT
       THEN /\ out' = <<>>
            /\ bus' = <<>>
            /\ calls' = <<>>
            /\ UNCHANGED <<last_pitch, txo_mode, cv_values>>
       ELSE LET st == NoteOnRun(voice, pitch, volume)
            IN  /\ last_pitch' = IF volume # 0
                                 THEN [last_pitch EXCEPT ![voice] = pitch]
                                 ELSE last_pitch
                /\ txo_mode' = st.txo_mode
                /\ cv_values' = st.cv_values
                /\ out' = st.out
                /\ bus' = st.bus
                /\ calls' = st.calls
    /\ UNCHANGED <<routing, transposes, max_volumes, scheduler, txo_refresh,
                   i2c_role, jf_mode, timers>>

\* a note_on_v without the guard on the voice, the voice taken modulo the
\* number of voices
note_on_v_NoGuard(voice, pitch, volume) ==
    LET st == NoteOnRun(voice % MAX_VOICES_COUNT, pitch, volume)
    IN  /\ last_pitch' = [last_pitch EXCEPT ![voice % MAX_VOICES_COUNT] = pitch]
        /\ txo_mode' = st.txo_mode
        /\ cv_values' = st.cv_values
        /\ out' = st.out
        /\ bus' = st.bus
        /\ calls' = st.calls
        /\ UNCHANGED <<routing, transposes, max_volumes, scheduler, txo_refresh,
                       i2c_role, jf_mode, timers>>

\* note_on_v
note_on_v(voice, pitch, volume) ==
    /\ IF voice >= MAX_VOICES_COUNT
       THEN /\ out' = <<>>
            /\ bus' = <<>>
            /\ calls' = <<>>
            /\ UNCHANGED <<last_pitch, txo_mode, cv_values>>
       ELSE LET st == NoteOnRun(voice, pitch, volume)
            IN  /\ last_pitch' = [last_pitch EXCEPT ![voice] = pitch]
                /\ txo_mode' = st.txo_mode
                /\ cv_values' = st.cv_values
                /\ out' = st.out
                /\ bus' = st.bus
                /\ calls' = st.calls
    /\ UNCHANGED <<routing, transposes, max_volumes, scheduler, txo_refresh, i2c_role,
                   jf_mode, timers>>

\* note_off
note_off(voice) ==
    /\ IF voice >= MAX_VOICES_COUNT
       THEN /\ out' = <<>>
            /\ bus' = <<>>
            /\ calls' = <<>>
            /\ UNCHANGED <<txo_mode, cv_values>>
       ELSE LET st == NoteOffRun(voice, last_pitch[voice])
            IN  /\ txo_mode' = st.txo_mode
                /\ cv_values' = st.cv_values
                /\ out' = st.out
                /\ bus' = st.bus
                /\ calls' = st.calls
    /\ UNCHANGED <<routing, last_pitch, transposes, max_volumes, scheduler, txo_refresh,
                   i2c_role, jf_mode, timers>>

\* set_output_transpose_v: the two TELEXo families write the same array
set_output_transpose_v(device, output, pitch) ==
    /\ cv_transpose' =
          IF device = VOICE_CV_GATE /\ output < MAX_CV_COUNT
          THEN [cv_transpose EXCEPT ![output] = pitch] ELSE cv_transpose
    /\ er301_transpose' =
          IF device = VOICE_ER301 /\ output < MAX_ER301_OUTPUT_COUNT
          THEN [er301_transpose EXCEPT ![output] = pitch] ELSE er301_transpose
    /\ jf_transpose' =
          IF device = VOICE_JF /\ output < MAX_JF_OUTPUT_COUNT
          THEN [jf_transpose EXCEPT ![output] = pitch] ELSE jf_transpose
    /\ txo_transpose' =
          IF device \in {VOICE_TXO_CV_GATE, VOICE_TXO_NOTE} /\ output < MAX_TXO_OUTPUT_COUNT
          THEN [txo_transpose EXCEPT ![output] = pitch] ELSE txo_transpose
    /\ disting_ex_transpose' =
          IF device = VOICE_DISTING_EX /\ output < MAX_DISTING_EX_OUTPUT_COUNT
          THEN [disting_ex_transpose EXCEPT ![output] = pitch] ELSE disting_ex_transpose
    /\ ex_midi_1_transpose' =
          IF device = VOICE_EX_MIDI_1 /\ output < MAX_EX_MIDI_1_OUTPUT_COUNT
          THEN [ex_midi_1_transpose EXCEPT ![output] = pitch] ELSE ex_midi_1_transpose
    /\ ex_midi_ch_transpose' =
          IF device = VOICE_EX_MIDI_CH /\ output < MAX_EX_MIDI_CH_OUTPUT_COUNT
          THEN [ex_midi_ch_transpose EXCEPT ![output] = pitch] ELSE ex_midi_ch_transpose
    /\ i2c2midi_1_transpose' =
          IF device = VOICE_I2C2MIDI_1 /\ output < MAX_I2C2MIDI_1_OUTPUT_COUNT
          THEN [i2c2midi_1_transpose EXCEPT ![output] = pitch] ELSE i2c2midi_1_transpose
    /\ i2c2midi_ch_transpose' =
          IF device = VOICE_I2C2MIDI_CH /\ output < MAX_I2C2MIDI_CH_OUTPUT_COUNT
          THEN [i2c2midi_ch_transpose EXCEPT ![output] = pitch] ELSE i2c2midi_ch_transpose
    /\ out' = <<>>
    /\ bus' = <<>>
    /\ calls' = <<>>
    /\ UNCHANGED <<routing, last_pitch, max_volumes, scheduler, txo_mode, txo_refresh,
                   cv_values, i2c_role, jf_mode, timers>>

\* set_output_max_volume: the CV/gate and the TELEXo CV/gate families keep no
\* max volume
set_output_max_volume(device, output, volume) ==
    /\ er301_max_volume' =
          IF device = VOICE_ER301 /\ output < MAX_ER301_OUTPUT_COUNT
          THEN [er301_max_volume EXCEPT ![output] = volume] ELSE er301_max_volume
    /\ jf_max_volume' =
          IF device = VOICE_JF /\ output < MAX_JF_OUTPUT_COUNT
          THEN [jf_max_volume EXCEPT ![output] = volume] ELSE jf_max_volume
    /\ txo_max_volume' =
          IF device = VOICE_TXO_NOTE /\ output < MAX_TXO_OUTPUT_COUNT
          THEN [txo_max_volume EXCEPT ![output] = volume] ELSE txo_max_volume
    /\ disting_ex_max_volume' =
          IF device = VOICE_DISTING_EX /\ output < MAX_DISTING_EX_OUTPUT_COUNT
          THEN [disting_ex_max_volume EXCEPT ![output] = volume] ELSE disting_ex_max_volume
    /\ ex_midi_1_max_volume' =
          IF device = VOICE_EX_MIDI_1 /\ output < MAX_EX_MIDI_1_OUTPUT_COUNT
          THEN [ex_midi_1_max_volume EXCEPT ![output] = volume] ELSE ex_midi_1_max_volume
    /\ ex_midi_ch_max_volume' =
          IF device = VOICE_EX_MIDI_CH /\ output < MAX_EX_MIDI_CH_OUTPUT_COUNT
          THEN [ex_midi_ch_max_volume EXCEPT ![output] = volume] ELSE ex_midi_ch_max_volume
    /\ i2c2midi_1_max_volume' =
          IF device = VOICE_I2C2MIDI_1 /\ output < MAX_I2C2MIDI_1_OUTPUT_COUNT
          THEN [i2c2midi_1_max_volume EXCEPT ![output] = volume] ELSE i2c2midi_1_max_volume
    /\ i2c2midi_ch_max_volume' =
          IF device = VOICE_I2C2MIDI_CH /\ output < MAX_I2C2MIDI_CH_OUTPUT_COUNT
          THEN [i2c2midi_ch_max_volume EXCEPT ![output] = volume] ELSE i2c2midi_ch_max_volume
    /\ out' = <<>>
    /\ bus' = <<>>
    /\ calls' = <<>>
    /\ UNCHANGED <<routing, last_pitch, transposes, scheduler, txo_mode, txo_refresh,
                   cv_values, i2c_role, jf_mode, timers>>

\* init_i2c_leader and init_i2c_follower configure the bus peripheral and
\* produce no transaction: the call is recorded
BusInit(st, fn, args) ==
    [st EXCEPT !.calls = Append(@, [device |-> NoTarget[1], output |-> NoTarget[2],
                                    fn |-> fn, args |-> args])]

\* a _set_i2c_mode that resets the Just Friends mode while still leader
_set_i2c_mode_ResetFirst(st, leader, address) ==
    IF leader # 0 /\ st.leader = 0
    THEN [BusInit(st, "init_i2c_leader", <<>>) EXCEPT !.leader = 1]
    ELSE IF leader = 0 /\ st.leader # 0
         THEN LET s1 == [_set_jf_mode(st, 0) EXCEPT !.leader = 0]
              IN  IF address # 0
                  THEN BusInit(s1, "init_i2c_follower", <<address>>)
                  ELSE s1
         ELSE st

\* a _set_i2c_mode that initialises the follower interface at every call
_set_i2c_mode_EveryCall(st, leader, address) ==
    IF leader # 0 /\ st.leader = 0
    THEN [BusInit(st, "init_i2c_leader", <<>>) EXCEPT !.leader = 1]
    ELSE IF leader = 0
         THEN LET s1 == _set_jf_mode([st EXCEPT !.leader = 0], 0)
              IN  IF address # 0
                  THEN BusInit(s1, "init_i2c_follower", <<address>>)
                  ELSE s1
         ELSE st

\* _set_i2c_mode; address is i2c_follower_address as its caller left it
_set_i2c_mode(st, leader, address) ==
    IF leader # 0 /\ st.leader = 0
    THEN [BusInit(st, "init_i2c_leader", <<>>) EXCEPT !.leader = 1]
    ELSE IF leader = 0 /\ st.leader # 0
         THEN LET s1 == _set_jf_mode([st EXCEPT !.leader = 0], 0)
              IN  IF address # 0
                  THEN BusInit(s1, "init_i2c_follower", <<address>>)
                  ELSE s1
         ELSE st

\* set_as_i2c_leader
set_as_i2c_leader ==
    LET st == _set_i2c_mode(Start, 1, i2c_follower_address)
    IN  /\ is_i2c_leader' = st.leader
        /\ jf_mode' = st.jf_mode
        /\ out' = st.out
        /\ bus' = st.bus
        /\ calls' = st.calls
        /\ UNCHANGED <<routing, last_pitch, transposes, max_volumes, scheduler, txo_mode,
                       txo_refresh, cv_values, i2c_follower_address, timers>>

\* set_as_i2c_follower
set_as_i2c_follower(address) ==
    LET st == _set_i2c_mode(Start, 0, address)
    IN  /\ i2c_follower_address' = address
        /\ is_i2c_leader' = st.leader
        /\ jf_mode' = st.jf_mode
        /\ out' = st.out
        /\ bus' = st.bus
        /\ calls' = st.calls
        /\ UNCHANGED <<routing, last_pitch, transposes, max_volumes, scheduler, txo_mode,
                       txo_refresh, cv_values, timers>>

\* ---------------------------------------------------------------------------
\* raw setters and readers of the bus families

\* what a raw setter changes is what its encoder changed
Setter(st) ==
    /\ jf_mode' = st.jf_mode
    /\ txo_mode' = st.txo_mode
    /\ cv_values' = st.cv_values
    /\ out' = st.out
    /\ bus' = st.bus
    /\ calls' = <<>>
    /\ UNCHANGED <<routing, last_pitch, transposes, max_volumes, scheduler, txo_refresh,
                   i2c_role, timers>>

\* set_er301_cv
set_er301_cv(output, value) == Setter(_set_er301_cv(Start, output, value))

\* set_er301_gate
set_er301_gate(output, on) == Setter(_set_er301_gate(Start, output, on))

\* set_jf_mode: the encoder receives mode & 1
set_jf_mode(mode) == Setter(_set_jf_mode(Start, mode % 2))

\* set_jf_gate
set_jf_gate(output, on) == Setter(_set_jf_gate(Start, output, on))

\* set_txo_mode
set_txo_mode(output, mode) == Setter(_set_txo_mode(Start, output, mode))

\* set_txo_cv
set_txo_cv(output, value) == Setter(_set_txo_cv(Start, output, value))

\* set_txo_gate
set_txo_gate(output, on) == Setter(_set_txo_gate(Start, output, on))

\* _get_txi_value: the request names the port, the two bytes read are the
\* reply of the device, and both are 0 when nothing was read
_get_txi_value(st, index, shift, reply) ==
    LET port == (index % 4) + (IF shift THEN 4 ELSE 0)
        address == <<"TELEXI", index \div 4>>
        s1 == _i2c_leader_tx(st, address, <<port>>)
        s2 == _i2c_leader_rx(s1, address, reply)
        buffer == IF st.leader = 0 THEN <<0, 0>> ELSE reply
    IN  [st |-> s2, value |-> S16(buffer[1] * 256 + buffer[2])]

\* the value a reader returns is recorded as the call "return"
Reader(st, value) ==
    /\ out' = st.out
    /\ bus' = st.bus
    /\ calls' = <<[device |-> NoTarget[1], output |-> NoTarget[2],
                   fn |-> "return", args |-> <<value>>]>>
    /\ UNCHANGED <<routing, last_pitch, transposes, max_volumes, scheduler, txo_mode,
                   txo_refresh, cv_values, i2c_role, jf_mode, timers>>

\* get_txi_input
get_txi_input(input, reply) ==
    IF input >= MAX_TXI_COUNT
    THEN Reader(Start, 0)
    ELSE LET r == _get_txi_value(Start, input, TRUE, reply)
         IN  Reader(r.st, r.value)

\* get_txi_param: the value read is shifted to the range of get_knob_value
get_txi_param(param, reply) ==
    IF param >= MAX_TXI_COUNT
    THEN Reader(Start, 0)
    ELSE LET r == _get_txi_value(Start, param, FALSE, reply)
         IN  Reader(r.st, U16(r.value * 4))

\* ---------------------------------------------------------------------------
\* batched TELEXo parameters

\* set_txo_attack
set_txo_attack(output, attack) ==
    /\ txo_refresh' =
          IF output >= MAX_TXO_OUTPUT_COUNT
          THEN txo_refresh
          ELSE [txo_refresh EXCEPT ![output].attack = attack,
                                   ![output].attack_dirty = 1]
    /\ out' = <<>>
    /\ bus' = <<>>
    /\ calls' = <<>>
    /\ UNCHANGED <<routing, last_pitch, transposes, max_volumes, scheduler, txo_mode,
                   cv_values, i2c_role, jf_mode, timers>>

\* set_txo_decay
set_txo_decay(output, decay) ==
    /\ txo_refresh' =
          IF output >= MAX_TXO_OUTPUT_COUNT
          THEN txo_refresh
          ELSE [txo_refresh EXCEPT ![output].decay = decay,
                                   ![output].decay_dirty = 1]
    /\ out' = <<>>
    /\ bus' = <<>>
    /\ calls' = <<>>
    /\ UNCHANGED <<routing, last_pitch, transposes, max_volumes, scheduler, txo_mode,
                   cv_values, i2c_role, jf_mode, timers>>

\* set_txo_waveform
set_txo_waveform(output, waveform) ==
    /\ txo_refresh' =
          IF output >= MAX_TXO_OUTPUT_COUNT
          THEN txo_refresh
          ELSE [txo_refresh EXCEPT ![output].waveform = waveform,
                                   ![output].waveform_dirty = 1]
    /\ out' = <<>>
    /\ bus' = <<>>
    /\ calls' = <<>>
    /\ UNCHANGED <<routing, last_pitch, transposes, max_volumes, scheduler, txo_mode,
                   cv_values, i2c_role, jf_mode, timers>>

\* a loop body of refresh_i2c that sends the decay before the attack
RefreshOutput_DecayFirst(st, i) ==
    LET r == txo_refresh[i]
        s1 == IF r.decay_dirty # 0
              THEN _send_txo_command(st, i, TO_ENV_DEC, r.decay) ELSE st
        s2 == IF r.attack_dirty # 0
              THEN _send_txo_command(s1, i, TO_ENV_ATT, r.attack) ELSE s1
    IN  IF r.waveform_dirty # 0
        THEN _send_txo_command(s2, i, TO_OSC_WAVE, r.waveform) ELSE s2

\* the body of the loop of refresh_i2c for output i: the commands it sends
RefreshOutput(st, i) ==
    LET r == txo_refresh[i]
        s1 == IF r.attack_dirty # 0
              THEN _send_txo_command(st, i, TO_ENV_ATT, r.attack) ELSE st
        s2 == IF r.decay_dirty # 0
              THEN _send_txo_command(s1, i, TO_ENV_DEC, r.decay) ELSE s1
    IN  IF r.waveform_dirty # 0
        THEN _send_txo_command(s2, i, TO_OSC_WAVE, r.waveform) ELSE s2

RECURSIVE RefreshRun(_, _)
RefreshRun(st, i) ==
    IF i >= MAX_TXO_OUTPUT_COUNT THEN st ELSE RefreshRun(RefreshOutput(st, i), i + 1)

\* a refresh_i2c that sends the dirty parameters and leaves them dirty
refresh_i2c_KeepDirty ==
    /\ out' = RefreshRun(Start, 0).out
    /\ bus' = RefreshRun(Start, 0).bus
    /\ calls' = <<>>
    /\ UNCHANGED <<routing, last_pitch, transposes, max_volumes, scheduler, txo_mode,
                   txo_refresh, cv_values, i2c_role, jf_mode, timers>>

\* a refresh_i2c that keeps the parameters dirty while the module follows
refresh_i2c_KeepUnsent ==
    /\ out' = RefreshRun(Start, 0).out
    /\ bus' = RefreshRun(Start, 0).bus
    /\ txo_refresh' =
          IF is_i2c_leader = 0
          THEN txo_refresh
          ELSE [i \in 0..(MAX_TXO_OUTPUT_COUNT - 1) |->
                   [txo_refresh[i] EXCEPT !.attack_dirty = 0, !.decay_dirty = 0,
                                          !.waveform_dirty = 0]]
    /\ calls' = <<>>
    /\ UNCHANGED <<routing, last_pitch, transposes, max_volumes, scheduler, txo_mode,
                   cv_values, i2c_role, jf_mode, timers>>

\* refresh_i2c: every dirty parameter is sent and its flag cleared
refresh_i2c ==
    /\ out' = RefreshRun(Start, 0).out
    /\ bus' = RefreshRun(Start, 0).bus
    /\ txo_refresh' =
          [i \in 0..(MAX_TXO_OUTPUT_COUNT - 1) |->
              [txo_refresh[i] EXCEPT !.attack_dirty = 0, !.decay_dirty = 0,
                                     !.waveform_dirty = 0]]
    /\ calls' = <<>>
    /\ UNCHANGED <<routing, last_pitch, transposes, max_volumes, scheduler, txo_mode,
                   cv_values, i2c_role, jf_mode, timers>>

\* ---------------------------------------------------------------------------
\* timed events. The software timer library (timer_add, timer_remove,
\* process_timers) belongs to the skeleton library: a timer is linked into the
\* list of running timers or not, counts ticksRemain down once per
\* millisecond tick and, at 0, runs its callback and reloads from ticks.

\* timer_remove
timer_remove(ts, index) == [ts EXCEPT ![index].linked = FALSE]

\* timer_add: a timer that is already linked is left as it is
timer_add(ts, index, ticks) ==
    IF ts[index].linked
    THEN ts
    ELSE [ts EXCEPT ![index].linked = TRUE, ![index].ticksRemain = ticks,
                    ![index].ticks = ticks]

\* a call recorded while the timers are served
TimerCall(tk, fn, args) ==
    [tk EXCEPT !.calls = Append(@, [device |-> NoTarget[1], output |-> NoTarget[2],
                                    fn |-> fn, args |-> args])]

\* a control_event that delivers before the application is initialised
control_event_Unguarded(tk, event, data, length) ==
    [tk EXCEPT !.out = Append(@, [kind |-> "event",
                                  addr |-> <<"process_event", event, length>>,
                                  data |-> data, via |-> NoTarget])]

\* control_event: process_event of the application receives the event, the
\* bytes the caller wrote to event_data for it and the length the caller gives
control_event(tk, event, data, length) ==
    IF control_initialized = 0
    THEN tk
    ELSE [tk EXCEPT !.out = Append(@, [kind |-> "event",
                                       addr |-> <<"process_event", event, length>>,
                                       data |-> data, via |-> NoTarget])]

\* an event_timer_callback that leaves a one-shot timer running
event_timer_callback_KeepTimer(tk, index) ==
    control_event(TimerCall(tk, "control_event", <<TIMED_EVENT, index>>),
                  TIMED_EVENT, <<index>>, 1)

\* event_timer_callback
event_timer_callback(tk, index) ==
    LET t1 == IF tk.timers[index].repeat = 0
              THEN [TimerCall(tk, "timer_remove", <<index>>)
                       EXCEPT !.timers = timer_remove(@, index)]
              ELSE tk
    IN  control_event(TimerCall(t1, "control_event", <<TIMED_EVENT, index>>),
                      TIMED_EVENT, <<index>>, 1)

\* one timer of the list at a tick
TickTimer(tk, index) ==
    LET remain == tk.timers[index].ticksRemain - 1
    IN  IF remain # 0
        THEN [tk EXCEPT !.timers[index].ticksRemain = remain]
        ELSE LET t1 == event_timer_callback(
                           [tk EXCEPT !.timers[index].ticksRemain = 0], index)
             IN  [t1 EXCEPT !.timers[index].ticksRemain = t1.timers[index].ticks]

\* the timers of the list are served one after the other, here by index
RECURSIVE TickRun(_, _)
TickRun(tk, todo) ==
    IF todo = {}
    THEN tk
    ELSE LET index == CHOOSE i \in todo : \A j \in todo : i <= j
         IN  TickRun(TickTimer(tk, index), todo \ {index})

\* grid_hold_callback; g is the grid hold timer and the output of the tick
grid_hold_callback(g) ==
    [g EXCEPT !.timer.linked = FALSE,
              !.tk = control_event(@, GRID_KEY_HELD, <<grid.held_x, grid.held_y>>, 2)]

\* the grid hold timer at a tick, served after the timed events
TickGridHold(tk) ==
    LET g == [timer |-> grid_hold_timer, tk |-> tk]
        remain == grid_hold_timer.ticksRemain - 1
    IN  IF ~grid_hold_timer.linked
        THEN g
        ELSE IF remain # 0
             THEN [g EXCEPT !.timer.ticksRemain = remain]
             ELSE LET g1 == grid_hold_callback([g EXCEPT !.timer.ticksRemain = 0])
                  IN  [g1 EXCEPT !.timer.ticksRemain = g1.timer.ticks]

\* process_timers, run by the millisecond tick
process_timers ==
    LET tk == TickRun([timers |-> event_timers, out |-> <<>>, calls |-> <<>>],
                      {i \in 0..(TIMED_EVENT_COUNT - 1) : event_timers[i].linked})
        g == TickGridHold(tk)
    IN  /\ event_timers' = tk.timers
        /\ grid_hold_timer' = g.timer
        /\ out' = g.tk.out
        /\ bus' = <<>>
        /\ calls' = tk.calls
        /\ UNCHANGED <<routing, last_pitch, transposes, max_volumes, tcTicks, poll_timers,
                       connections, events, grid, txo_mode, txo_refresh, cv_values,
                       i2c_role, jf_mode, control_initialized>>

\* what an operation on the timers leaves alone
TimerFrame ==
    UNCHANGED <<routing, last_pitch, transposes, max_volumes, scheduler, txo_mode,
                txo_refresh, cv_values, i2c_role, jf_mode, control_initialized>>

\* the guard lets index = TIMED_EVENT_COUNT through: the element accessed is
\* one past the array, which is recorded and leaves the array alone
PastTheArray(fn, index) ==
    /\ event_timers' = event_timers
    /\ calls' = <<[device |-> NoTarget[1], output |-> NoTarget[2], fn |-> fn,
                   args |-> <<"event_timers", index>>]>>

\* an add_timed_event that does not cancel the timer of the index first
add_timed_event_NoCancel(index, ms, repeat) ==
    /\ IF index >= TIMED_EVENT_COUNT
       THEN UNCHANGED <<event_timers, calls>>
       ELSE /\ event_timers' =
                  timer_add([event_timers EXCEPT ![index].repeat = repeat], index, ms)
            /\ calls' = <<>>
    /\ out' = <<>>
    /\ bus' = <<>>
    /\ TimerFrame

\* add_timed_event
add_timed_event(index, ms, repeat) ==
    /\ IF index > TIMED_EVENT_COUNT
       THEN /\ event_timers' = event_timers
            /\ calls' = <<>>
       ELSE IF index = TIMED_EVENT_COUNT
            THEN PastTheArray("add_timed_event", index)
            ELSE /\ event_timers' =
                       timer_add([timer_remove(event_timers, index)
                                     EXCEPT ![index].repeat = repeat], index, ms)
                 /\ calls' = <<>>
    /\ out' = <<>>
    /\ bus' = <<>>
    /\ TimerFrame

\* stop_timed_event
stop_timed_event(index) ==
    /\ IF index > TIMED_EVENT_COUNT
       THEN /\ event_timers' = event_timers
            /\ calls' = <<>>
       ELSE IF index = TIMED_EVENT_COUNT
            THEN PastTheArray("stop_timed_event", index)
            ELSE /\ event_timers' = timer_remove(event_timers, index)
                 /\ calls' = <<>>
    /\ out' = <<>>
    /\ bus' = <<>>
    /\ TimerFrame

\* an update_timer_interval that restarts the pending countdown
update_timer_interval_Restart(index, ms) ==
    /\ IF index >= TIMED_EVENT_COUNT
       THEN UNCHANGED <<event_timers, calls>>
       ELSE /\ event_timers' = [event_timers EXCEPT ![index].ticks = ms,
                                                    ![index].ticksRemain = ms]
            /\ calls' = <<>>
    /\ out' = <<>>
    /\ bus' = <<>>
    /\ TimerFrame

\* update_timer_interval
update_timer_interval(index, ms) ==
    /\ IF index > TIMED_EVENT_COUNT
       THEN /\ event_timers' = event_timers
            /\ calls' = <<>>
       ELSE IF index = TIMED_EVENT_COUNT
            THEN PastTheArray("update_timer_interval", index)
            ELSE /\ event_timers' = [event_timers EXCEPT ![index].ticks = ms]
                 /\ calls' = <<>>
    /\ out' = <<>>
    /\ bus' = <<>>
    /\ TimerFrame

\* process_i2c: the frame a leader sent to this module; at most
\* MAX_EVENT_DATA_LENGTH bytes of it are copied to event_data, and the length
\* of the frame is passed on
process_i2c(data) ==
    LET copied == SubSeq(data, 1, Min(Len(data), MAX_EVENT_DATA_LENGTH))
    IN  Setter(control_event(Start, I2C_RECEIVED, copied, U8(Len(data))))

\* initialize_control: init_control of the application has returned
initialize_control ==
    /\ control_initialized' = 1
    /\ out' = <<>>
    /\ bus' = <<>>
    /\ calls' = <<[device |-> NoTarget[1], output |-> NoTarget[2],
                   fn |-> "init_control", args |-> <<>>]>>
    /\ UNCHANGED <<routing, last_pitch, transposes, max_volumes, scheduler, txo_mode,
                   txo_refresh, cv_values, i2c_role, jf_mode, event_timers>>

\* ---------------------------------------------------------------------------
\* main loop: the polled subsystems and the event handlers

\* ticks - timer > interval as process_system_events computes it: ticks is a
\* u64, the u8 timer is converted to u64 and the difference is taken modulo
\* 2^64, so a timer above ticks leaves a difference above every interval
Due(now, timer, interval) == now < timer \/ now - timer > interval

\* a polled subsystem is called
PollCall(st, name) == Emit([st EXCEPT !.via = NoTarget], "poll", <<name, 0>>, <<>>)

\* process_system_events with get_ticks() = now: which subsystems run, and
\* the output actions of the pass. The inputs of the teletype build have no
\* button, clock or front button to poll, so poll_inputs posts no event
process_system_events(st, now) ==
    LET adc == Due(now, adc_timer, ADC_POLL_INTERVAL)
        inputs == POLL_INPUTS # 0 /\ Due(now, inputs_poll_timer, INPUTS_POLL_INTERVAL)
        midi == midi_connected # 0 /\ Due(now, midi_poll_timer, MIDI_POLL_INTERVAL)
        hid == hid_connected # 0 /\ Due(now, hid_poll_timer, HID_POLL_INTERVAL)
        i2c == Due(now, i2c_refresh_timer, I2C_REFRESH_INTERVAL)
        s1 == IF adc THEN PollCall(st, "adc_convert") ELSE st
        s2 == IF inputs THEN PollCall(s1, "poll_inputs") ELSE s1
        s3 == IF midi THEN PollCall(s2, "midi_read") ELSE s2
        s4 == IF hid THEN PollCall(s3, "process_hid") ELSE s3
        s5 == IF i2c THEN RefreshRun(PollCall(s4, "refresh_i2c"), 0) ELSE s4
    IN  [st |-> s5, adc |-> adc, inputs |-> inputs, midi |-> midi, hid |-> hid,
         i2c |-> i2c]

\* the event types of the library, kNumEventTypes of them
EventTypes ==
    {"kEventFront", "kEventKeyTimer", "kEventSaveFlash", "kEventClockNormal",
     "kEventClockExt", "kEventFtdiConnect", "kEventFtdiDisconnect",
     "kEventSerialConnect", "kEventSerialDisconnect", "kEventMonomeConnect",
     "kEventMonomeDisconnect", "kEventMonomePoll", "kEventMonomeRefresh",
     "kEventMonomeGridKey", "kEventMonomeRingEnc", "kEventMidiConnect",
     "kEventMidiDisconnect", "kEventMidiPacket", "kEventHidConnect",
     "kEventHidDisconnect", "kEventTr", "kEventTrigger", "kEventAdc"}

\* the assignments of assign_main_event_handlers after its loop
DedicatedHandlers ==
    [kEventFront |-> "handler_front",
     kEventClockNormal |-> "handler_clock_normal",
     kEventClockExt |-> "handler_clock_ext",
     kEventTr |-> "handler_tr",
     kEventTrigger |-> "handler_tr",
     kEventFtdiConnect |-> "handler_ftdi_connect",
     kEventFtdiDisconnect |-> "handler_ftdi_disconnect",
     kEventSerialConnect |-> "handler_serial_connect",
     kEventSerialDisconnect |-> "handler_ftdi_disconnect",
     kEventMonomeConnect |-> "handler_monome_connect",
     kEventMonomeDisconnect |-> "handler_none",
     kEventMonomeRefresh |-> "handler_monome_refresh",
     kEventMonomePoll |-> "handler_monome_poll",
     kEventMonomeGridKey |-> "handler_monome_grid_key",
     kEventMonomeRingEnc |-> "handler_monome_ring_enc",
     kEventMidiConnect |-> "handler_midi_connect",
     kEventMidiDisconnect |-> "handler_midi_disconnect",
     kEventMidiPacket |-> "handler_standard_midi_packet",
     kEventHidConnect |-> "handler_hid_connect",
     kEventHidDisconnect |-> "handler_hid_disconnect"]

\* assign_main_event_handlers: handler_none for every type, then the
\* assignments
app_event_handlers ==
    [t \in EventTypes |->
        IF t \in DOMAIN DedicatedHandlers THEN DedicatedHandlers[t] ELSE "handler_none"]

\* A handler works on a record h of the output state st and the connection
\* state it may change.

\* handler_none
handler_none(h, data) == h

\* handler_clock_ext
handler_clock_ext(h, data) ==
    [h EXCEPT !.st = control_event(@, MAIN_CLOCK_RECEIVED, <<1, U8(data)>>, 2)]

\* handler_midi_connect
handler_midi_connect(h, data) ==
    [h EXCEPT !.st = control_event(@, MIDI_CONNECTED, <<1>>, 1), !.midi_connected = 1]

\* handler_midi_disconnect
handler_midi_disconnect(h, data) ==
    [h EXCEPT !.midi_connected = 0, !.st = control_event(@, MIDI_CONNECTED, <<0>>, 1)]

\* handler_hid_connect; data stands for the device descriptor, here the kind
\* of device its product and vendor identify
handler_hid_connect(h, data) ==
    IF data = hid_shnth
    THEN [h EXCEPT !.hid_connected = 1, !.hid_device = hid_shnth,
                   !.st = control_event(@, SHNTH_CONNECTED, <<1>>, 1)]
    ELSE IF data = hid_ps3
         THEN [h EXCEPT !.hid_connected = 1, !.hid_device = hid_ps3]
         ELSE [h EXCEPT !.hid_connected = 1, !.hid_device = hid_keyboard,
                        !.st = control_event(@, KEYBOARD_CONNECTED, <<1>>, 1)]

\* handler_hid_disconnect
handler_hid_disconnect(h, data) ==
    [h EXCEPT !.hid_connected = 0,
              !.st = control_event(@, IF h.hid_device = hid_shnth
                                      THEN SHNTH_CONNECTED ELSE KEYBOARD_CONNECTED,
                                   <<0>>, 1)]

\* handler_ftdi_disconnect; the poll and refresh timers of the monome
\* library and the arc are outside the model
handler_ftdi_disconnect(h, data) ==
    [h EXCEPT !.grid_hold_timer.linked = FALSE,
              !.grid.connected = 0,
              !.st = control_event(@, IF h.grid.connected # 0
                                      THEN GRID_CONNECTED ELSE ARC_CONNECTED,
                                   <<0>>, 1)]

\* handler_monome_connect; data[1] stands for monome_device() == eDeviceArc
handler_monome_connect(h, data) ==
    IF data[1] # 0
    THEN [h EXCEPT !.st = control_event(@, ARC_CONNECTED, <<1>>, 1)]
    ELSE [h EXCEPT !.grid_hold_timer.linked = FALSE,
                   !.grid.connected = 1,
                   !.st = control_event(@, GRID_CONNECTED, <<1>>, 1)]

\* a handler_monome_grid_key for which the release of any key ends the hold
handler_monome_grid_key_AnyRelease(h, data) ==
    LET x == data[1]
        y == data[2]
        z == data[3]
        h1 == IF z # 0
              THEN [h EXCEPT !.grid.held_x = x, !.grid.held_y = y,
                             !.grid_hold_timer =
                                 [linked |-> TRUE, ticksRemain |-> GRID_HOLD_TIME,
                                  ticks |-> GRID_HOLD_TIME]]
              ELSE [h EXCEPT !.grid_hold_timer.linked = FALSE]
    IN  [h1 EXCEPT !.st = control_event(@, GRID_KEY_PRESSED, <<x, y, z>>, 3)]

\* handler_monome_grid_key; data stands for the x, y and z that
\* monome_grid_key_parse_event_data reads from the event
handler_monome_grid_key(h, data) ==
    LET x == data[1]
        y == data[2]
        z == data[3]
        h1 == IF z # 0
              THEN [h EXCEPT !.grid.held_x = x, !.grid.held_y = y,
                             !.grid_hold_timer =
                                 [linked |-> TRUE, ticksRemain |-> GRID_HOLD_TIME,
                                  ticks |-> GRID_HOLD_TIME]]
              ELSE IF h.grid.held_x = x /\ h.grid.held_y = y
                   THEN [h EXCEPT !.grid_hold_timer.linked = FALSE]
                   ELSE h
    IN  [h1 EXCEPT !.st = control_event(@, GRID_KEY_PRESSED, <<x, y, z>>, 3)]

\* (app_event_handlers)[e.type](e.data)
Handle(h, e) ==
    LET handler == app_event_handlers[e.type]
    IN  CASE handler = "handler_none" -> handler_none(h, e.data)
          [] handler = "handler_clock_ext" -> handler_clock_ext(h, e.data)
          [] handler = "handler_midi_connect" -> handler_midi_connect(h, e.data)
          [] handler = "handler_midi_disconnect" -> handler_midi_disconnect(h, e.data)
          [] handler = "handler_hid_connect" -> handler_hid_connect(h, e.data)
          [] handler = "handler_hid_disconnect" -> handler_hid_disconnect(h, e.data)
          [] handler = "handler_ftdi_disconnect" -> handler_ftdi_disconnect(h, e.data)
          [] handler = "handler_monome_connect" -> handler_monome_connect(h, e.data)
          [] handler = "handler_monome_grid_key" -> handler_monome_grid_key(h, e.data)

\* the state a handler starts from, after the pass that left st
HandlerStart(st) ==
    [st |-> st, midi_connected |-> midi_connected, hid_connected |-> hid_connected,
     hid_device |-> hid_device, grid |-> grid, grid_hold_timer |-> grid_hold_timer]

\* a loop iteration that serves every event of the queue
main_DrainQueue(h) ==
    LET RECURSIVE Drain(_, _)
        Drain(g, q) == IF q = <<>> THEN g ELSE Drain(Handle(g, Head(q)), Tail(q))
    IN  [h |-> Drain(h, events), events |-> <<>>]

\* event_next and the handler call of an iteration of the loop of main
main_NextEvent(h) ==
    IF events = <<>>
    THEN [h |-> h, events |-> events]
    ELSE [h |-> Handle(h, Head(events)), events |-> Tail(events)]

\* one iteration of the loop of main: process_system_events, then the next
\* event of the queue, if any, goes to its handler
main ==
    LET ps == process_system_events(Start, tcTicks)
        r == main_NextEvent(HandlerStart(ps.st))
    IN  /\ adc_timer' = IF ps.adc THEN U8(tcTicks) ELSE adc_timer
        /\ inputs_poll_timer' = IF ps.inputs THEN U8(tcTicks) ELSE inputs_poll_timer
        /\ midi_poll_timer' = IF ps.midi THEN U8(tcTicks) ELSE midi_poll_timer
        /\ hid_poll_timer' = IF ps.hid THEN U8(tcTicks) ELSE hid_poll_timer
        /\ i2c_refresh_timer' = IF ps.i2c THEN U8(tcTicks) ELSE i2c_refresh_timer
        /\ txo_refresh' =
              IF ps.i2c
              THEN [i \in 0..(MAX_TXO_OUTPUT_COUNT - 1) |->
                      [txo_refresh[i] EXCEPT !.attack_dirty = 0, !.decay_dirty = 0,
                                             !.waveform_dirty = 0]]
              ELSE txo_refresh
        /\ events' = r.events
        /\ midi_connected' = r.h.midi_connected
        /\ hid_connected' = r.h.hid_connected
        /\ hid_device' = r.h.hid_device
        /\ grid' = r.h.grid
        /\ grid_hold_timer' = r.h.grid_hold_timer
        /\ out' = r.h.st.out
        /\ bus' = r.h.st.bus
        /\ calls' = <<>>
        /\ UNCHANGED <<routing, last_pitch, transposes, max_volumes, txo_mode,
                       cv_values, i2c_role, jf_mode, timers, tcTicks>>

\* event_post of the library, called from an interrupt: the event joins the
\* queue
event_post(e) ==
    /\ events' = Append(events, e)
    /\ out' = <<>>
    /\ bus' = <<>>
    /\ calls' = <<>>
    /\ UNCHANGED <<routing, last_pitch, transposes, max_volumes, txo_mode,
                   txo_refresh, cv_values, i2c_role, jf_mode, timers, tcTicks,
                   poll_timers, connections, monome>>

\* the millisecond interrupt of the library: the tick counter advances and
\* the software timers are served
irq_tc ==
    LET tk == TickRun([timers |-> event_timers, out |-> <<>>, calls |-> <<>>],
                      {i \in 0..(TIMED_EVENT_COUNT - 1) : event_timers[i].linked})
        g == TickGridHold(tk)
    IN  /\ tcTicks' = tcTicks + 1
        /\ event_timers' = tk.timers
        /\ grid_hold_timer' = g.timer
        /\ out' = g.tk.out
        /\ bus' = <<>>
        /\ calls' = tk.calls
        /\ UNCHANGED <<routing, last_pitch, transposes, max_volumes, txo_mode,
                       txo_refresh, cv_values, i2c_role, jf_mode,
                       control_initialized, poll_timers, connections, events, grid>>

\* ---------------------------------------------------------------------------
\* history

\* the operation and its arguments are recorded
Did(name, args) == last_op' = Op(name, args)

\* the step is recorded in the history
Track ==
    /\ prev_op' = last_op
    /\ pre1' = <<voice_maps, device_on>>
    /\ pre2' = pre1

\* ---------------------------------------------------------------------------
\* specification of the routing table: the application calls map_voice and
\* mute_device in any order

\* mute arguments are 0 .. MaxMute
MaxMute == 1

\* <<voice, <<device, output>>, on>> arguments of map_voice: outputs below, at
\* and above MAX_OUTPUT_COUNT for a 4-output, a 6-output and a 16-output
\* family, and a voice and a family out of range
RoutingMapArgs ==
    ({0} \X {<<VOICE_CV_GATE, 0>>, <<VOICE_CV_GATE, 8>>, <<VOICE_JF, 0>>,
             <<VOICE_JF, 9>>, <<VOICE_ER301, 9>>} \X {0, 1})
    \cup {<<MAX_VOICES_COUNT, <<VOICE_JF, 0>>, 1>>, <<0, <<MAX_DEVICE_COUNT, 0>>, 1>>}

RoutingMuteArgs ==
    {VOICE_CV_GATE, VOICE_JF, MAX_DEVICE_COUNT} \X (0..MaxMute)

NextRouting ==
    \/ \E a \in RoutingMapArgs :
          /\ map_voice(a[1], a[2][1], a[2][2], a[3])
          /\ Did("map_voice", <<a[1], a[2][1], a[2][2], a[3]>>)
          /\ Track
          /\ UNCHANGED <<sounding, written, reg, observations>>
    \/ \E a \in RoutingMuteArgs :
          mute_device(a[1], a[2]) /\ Did("mute_device", a) /\ Track
          /\ UNCHANGED <<sounding, written, reg, observations>>

SpecRouting == Init /\ [][NextRouting]_vars

\* ---------------------------------------------------------------------------
\* specification of note dispatch: the application maps voice 0 to output 0
\* of any family, mutes and unmutes the direct family, becomes bus leader and
\* plays notes on voice 0 and on a voice out of range

\* at most MaxMapped routing bits of voice 0 are set at a time
MaxMapped == 2

\* the number of routing bits set in the row of the voice
MappedCount(voice) ==
    Cardinality({b \in voice_maps :
        b[1] \in VoiceMapsCell(voice, 0, 0)..VoiceMapsCell(voice, MAX_DEVICE_COUNT - 1, 0)})

NotesVoices == {0, MAX_VOICES_COUNT}
NotesPitches == {1000}
NotesVolumes == {0, 8000}

NextNotes ==
    \/ \E d \in 0..(MAX_DEVICE_COUNT - 1) :
          /\ MappedCount(0) < MaxMapped
          /\ map_voice(0, d, 0, 1)
          /\ Did("map_voice", <<>>)
          /\ UNCHANGED history
    \/ \E d \in 0..(MAX_DEVICE_COUNT - 1) :
          /\ map_voice(0, d, 0, 0)
          /\ Did("map_voice", <<>>)
          /\ UNCHANGED history
    \/ \E m \in {0, 1} :
          /\ mute_device(VOICE_CV_GATE, m)
          /\ Did("mute_device", <<>>)
          /\ UNCHANGED history
    \/ /\ set_as_i2c_leader
       /\ Did("set_as_i2c_leader", <<>>)
       /\ UNCHANGED history
    \/ \E v \in NotesVoices, p \in NotesPitches, vol \in NotesVolumes :
          /\ note_on_v(v, p, vol)
          /\ Did("note_on_v", <<v, p, vol>>)
          /\ UNCHANGED history
    \/ \E v \in NotesVoices :
          /\ note_off(v)
          /\ Did("note_off", <<v>>)
          /\ UNCHANGED history

SpecNotes == Init /\ [][NextNotes]_vars

\* ---------------------------------------------------------------------------
\* specification of fan-out: voice 0 is mapped to up to MaxFanout outputs
\* among output 0 of every family and output 1 of the first two, and played

MaxFanout == 3

FanoutTargets ==
    {<<d, 0>> : d \in 0..(MAX_DEVICE_COUNT - 1)}
    \cup {<<VOICE_CV_GATE, 1>>, <<VOICE_ER301, 1>>}

NextFanout ==
    \/ \E t \in FanoutTargets :
          /\ MappedCount(0) < MaxFanout
          /\ map_voice(0, t[1], t[2], 1)
          /\ Did("map_voice", <<>>)
          /\ UNCHANGED history
    \/ \E t \in FanoutTargets :
          /\ map_voice(0, t[1], t[2], 0)
          /\ Did("map_voice", <<>>)
          /\ UNCHANGED history
    \/ /\ set_as_i2c_leader
       /\ Did("set_as_i2c_leader", <<>>)
       /\ UNCHANGED history
    \/ \E p \in NotesPitches, vol \in NotesVolumes :
          /\ note_on_v(0, p, vol)
          /\ Did("note_on_v", <<0, p, vol>>)
          /\ UNCHANGED history

SpecFanout == Init /\ [][NextFanout]_vars

\* ---------------------------------------------------------------------------
\* specification of re-routing while a note sounds: voice 0 is mapped and
\* unmapped on output 0 of three families, the direct family is muted and
\* unmuted, and notes are played and released

RemapDevices == {VOICE_CV_GATE, VOICE_ER301, VOICE_TXO_CV_GATE}

NextRemap ==
    \/ \E d \in RemapDevices, on \in {0, 1} :
          /\ map_voice(0, d, 0, on)
          /\ Did("map_voice", <<>>)
          /\ UNCHANGED history
    \/ \E m \in {0, 1} :
          /\ mute_device(VOICE_CV_GATE, m)
          /\ Did("mute_device", <<>>)
          /\ UNCHANGED history
    \/ /\ set_as_i2c_leader
       /\ Did("set_as_i2c_leader", <<>>)
       /\ UNCHANGED history
    \/ \E p \in NotesPitches, vol \in NotesVolumes \ {0} :
          /\ note_on_v(0, p, vol)
          /\ Did("note_on_v", <<0, p, vol>>)
          /\ sounding' = [sounding EXCEPT ![0] = Targets(0)]
          /\ UNCHANGED <<routing_history, written, reg, observations>>
    \/ /\ note_off(0)
       /\ Did("note_off", <<0>>)
       /\ UNCHANGED history

SpecRemap == Init /\ [][NextRemap]_vars

\* ---------------------------------------------------------------------------
\* specification of the parameter flush: the application writes attack, decay
\* and waveform of one TELEXo output and of an output out of range, changes
\* the bus role, and the flush runs at any moment

FlushOutput == 5
FlushOutputs == {FlushOutput, MAX_TXO_OUTPUT_COUNT}
FlushValues == {10, 300}

\* a write to a batched parameter of the observed output is counted
Write(field, output, value) ==
    written' =
        [pend |-> IF output = FlushOutput
                  THEN [written.pend EXCEPT
                           ![field] = [n |-> Min(@.n + 1, 2), last |-> value]]
                  ELSE written.pend,
         sent |-> NothingWritten.sent,
         dropped |-> IF output = FlushOutput
                     THEN [written.dropped EXCEPT ![field] = FALSE]
                     ELSE written.dropped]

\* a flush takes what was pending; dropped marks a parameter that a flush run
\* as follower took and that was not written since
Flushed ==
    written' = [pend |-> NothingWritten.pend, sent |-> written.pend,
                dropped |-> IF is_i2c_leader = 0
                            THEN [f \in DOMAIN written.dropped |->
                                     written.dropped[f] \/ written.pend[f].n > 0]
                            ELSE written.dropped]

\* any other operation
NoWrite == written' = [written EXCEPT !.sent = NothingWritten.sent]

NextFlush ==
    \/ \E o \in FlushOutputs, x \in FlushValues :
          /\ set_txo_attack(o, x)
          /\ Did("set_txo_attack", <<o, x>>)
          /\ Write("attack", o, x)
          /\ UNCHANGED <<routing_history, sounding, reg, observations>>
    \/ \E o \in FlushOutputs, x \in FlushValues :
          /\ set_txo_decay(o, x)
          /\ Did("set_txo_decay", <<o, x>>)
          /\ Write("decay", o, x)
          /\ UNCHANGED <<routing_history, sounding, reg, observations>>
    \/ \E o \in FlushOutputs, x \in FlushValues :
          /\ set_txo_waveform(o, x)
          /\ Did("set_txo_waveform", <<o, x>>)
          /\ Write("waveform", o, x)
          /\ UNCHANGED <<routing_history, sounding, reg, observations>>
    \/ /\ refresh_i2c
       /\ Did("refresh_i2c", <<>>)
       /\ Flushed
       /\ UNCHANGED <<routing_history, sounding, reg, observations>>
    \/ /\ set_as_i2c_leader
       /\ Did("set_as_i2c_leader", <<>>)
       /\ NoWrite
       /\ UNCHANGED <<routing_history, sounding, reg, observations>>
    \/ /\ set_as_i2c_follower(0)
       /\ Did("set_as_i2c_follower", <<0>>)
       /\ NoWrite
       /\ UNCHANGED <<routing_history, sounding, reg, observations>>

SpecFlush == Init /\ [][NextFlush]_vars

\* ---------------------------------------------------------------------------
\* specification of the timed events: the application adds, stops and
\* re-times the timer of one index and of an index out of range while the
\* millisecond tick runs

TimerIndex == 3
TimerIndices == {TimerIndex, TIMED_EVENT_COUNT + 1}
AddPeriods == {2, 3}
UpdatePeriods == {1, 3}

\* the tick runs until the latest registration is MaxAge ticks old
MaxAge == 7

\* the TIMED_EVENT occurrences of the observed index among output actions
TimedEvents(actions) ==
    SelectSeq(actions, LAMBDA m : m.kind = "event" /\ m.addr[2] = TIMED_EVENT
                                  /\ m.data = <<TimerIndex>>)

\* the life of a registration, kept from the operations alone: age in ticks
\* since add_timed_event, TIMED_EVENTs delivered since (total) and since the
\* last stop or add (fires), the deadline pending when it replaced an earlier
\* registration (old), the documented countdown (due) and reload (period),
\* and the TIMED_EVENTs delivered since an interval update that found a
\* deadline pending (after)
Added(ms, repeat) ==
    reg' = [added |-> TRUE, live |-> TRUE, age |-> 0, ms |-> ms, repeat |-> repeat,
            fires |-> 0, total |-> 0, clean |-> TRUE, replaced |-> reg.due > 0,
            old |-> reg.due, stopped_at |-> 0, due |-> ms, period |-> ms,
            expect |-> FALSE, updated |-> FALSE, after |-> 0, key |-> <<>>, others |-> 0]

Stopped ==
    reg' = [reg EXCEPT !.live = FALSE, !.fires = 0, !.stopped_at = reg.age,
                       !.due = 0, !.expect = FALSE]

Updated(ms) ==
    reg' = [reg EXCEPT !.period = ms, !.clean = FALSE, !.expect = FALSE,
                       !.updated = (reg.due > 0 /\ ms # reg.period),
                       !.after = 0]

Ticked ==
    LET n == Len(TimedEvents(out'))
    IN  reg' = [reg EXCEPT
                  !.age = IF reg.added THEN @ + 1 ELSE @,
                  !.fires = @ + n,
                  !.total = @ + n,
                  !.after = IF reg.updated THEN @ + n ELSE @,
                  !.expect = (reg.due = 1),
                  !.due = IF @ = 0 THEN 0
                          ELSE IF @ > 1 THEN @ - 1
                          ELSE IF reg.repeat # 0 THEN reg.period ELSE 0]

NextTimer ==
    \/ \E i \in TimerIndices, ms \in AddPeriods, r \in {0, 1} :
          /\ add_timed_event(i, ms, r)
          /\ Did("add_timed_event", <<i>>)
          /\ IF i = TimerIndex THEN Added(ms, r) ELSE UNCHANGED reg
          /\ UNCHANGED <<routing_history, sounding, written, observations>>
    \/ \E i \in TimerIndices :
          /\ stop_timed_event(i)
          /\ Did("stop_timed_event", <<i>>)
          /\ IF i = TimerIndex THEN Stopped ELSE UNCHANGED reg
          /\ UNCHANGED <<routing_history, sounding, written, observations>>
    \/ \E i \in TimerIndices, ms \in UpdatePeriods :
          /\ update_timer_interval(i, ms)
          /\ Did("update_timer_interval", <<i>>)
          /\ IF i = TimerIndex THEN Updated(ms) ELSE UNCHANGED reg
          /\ UNCHANGED <<routing_history, sounding, written, observations>>
    \/ /\ reg.age < MaxAge
       /\ process_timers
       /\ Did("process_timers", <<>>)
       /\ Ticked
       /\ UNCHANGED <<routing_history, sounding, written, observations>>

SpecTimer == Init /\ [][NextTimer]_vars

\* ---------------------------------------------------------------------------
\* specification of the bus role: the application maps voice 0 to output 0 of
\* a bus family, changes the bus role, plays notes, calls the raw setters of
\* the bus families, writes a batched parameter, reads a TELEXi input, and
\* the flush runs at any moment

BusValue == 100
BusVoices == {0, MAX_VOICES_COUNT}
JfModes == {0, 1, 2}
BusReplies == {<<1, 2>>}

\* the bus families
BusFamilies == (0..(MAX_DEVICE_COUNT - 1)) \ {VOICE_CV_GATE}

\* voice 0 is mapped to output 0 of one bus family at a time
NextBus ==
    \/ \E d \in BusFamilies :
          /\ \A e \in BusFamilies : ~_is_voice_mapped(0, e, 0)
          /\ map_voice(0, d, 0, 1)
          /\ Did("map_voice", <<>>)
          /\ UNCHANGED history
    \/ \E d \in BusFamilies :
          /\ map_voice(0, d, 0, 0)
          /\ Did("map_voice", <<>>)
          /\ UNCHANGED history
    \/ /\ set_as_i2c_leader
       /\ Did("set_as_i2c_leader", <<>>)
       /\ UNCHANGED history
    \/ /\ set_as_i2c_follower(0)
       /\ Did("set_as_i2c_follower", <<0>>)
       /\ UNCHANGED history
    \/ \E v \in BusVoices, p \in NotesPitches, vol \in NotesVolumes :
          /\ note_on_v(v, p, vol)
          /\ Did("note_on_v", <<v, p, vol>>)
          /\ UNCHANGED history
    \/ \E v \in BusVoices :
          /\ note_off(v)
          /\ Did("note_off", <<v>>)
          /\ UNCHANGED history
    \/ /\ set_er301_cv(0, BusValue)
       /\ Did("set_er301_cv", <<0, BusValue>>)
       /\ UNCHANGED history
    \/ /\ set_er301_gate(0, 1)
       /\ Did("set_er301_gate", <<0, 1>>)
       /\ UNCHANGED history
    \/ \E m \in JfModes :
          /\ set_jf_mode(m)
          /\ Did("set_jf_mode", <<m>>)
          /\ UNCHANGED history
    \/ /\ set_jf_gate(0, 1)
       /\ Did("set_jf_gate", <<0, 1>>)
       /\ UNCHANGED history
    \/ \E m \in {0, 1} :
          /\ set_txo_mode(0, m)
          /\ Did("set_txo_mode", <<0, m>>)
          /\ UNCHANGED history
    \/ /\ set_txo_cv(0, BusValue)
       /\ Did("set_txo_cv", <<0, BusValue>>)
       /\ UNCHANGED history
    \/ /\ set_txo_gate(0, 1)
       /\ Did("set_txo_gate", <<0, 1>>)
       /\ UNCHANGED history
    \/ /\ set_txo_attack(0, BusValue)
       /\ Did("set_txo_attack", <<0, BusValue>>)
       /\ UNCHANGED history
    \/ /\ refresh_i2c
       /\ Did("refresh_i2c", <<>>)
       /\ UNCHANGED history
    \/ \E r \in BusReplies :
          /\ get_txi_input(0, r)
          /\ Did("get_txi_input", <<0>>)
          /\ UNCHANGED history
    \/ \E r \in BusReplies :
          /\ get_txi_param(0, r)
          /\ Did("get_txi_param", <<0>>)
          /\ UNCHANGED history

SpecBus == Init /\ [][NextBus]_vars

\* ---------------------------------------------------------------------------
\* specification of the main loop: the interrupts post events while the tick
\* count is one of PostTicks and the queue holds fewer than MaxQueue events,
\* the millisecond interrupt advances the tick count up to MaxTicks, and the
\* loop of main iterates, at least once between two ticks (an iteration
\* takes far less than a millisecond)

MaxTicks == 310
PostTicks == {0, 51}
MaxQueue == 2

\* the events the interrupts post: types with a dedicated handler, the type
\* assigned handler_none by name and a type left to the loop's default
LoopEvents ==
    {[type |-> "kEventMidiConnect", data |-> 0],
     [type |-> "kEventMidiDisconnect", data |-> 0],
     [type |-> "kEventHidConnect", data |-> hid_shnth],
     [type |-> "kEventHidConnect", data |-> hid_keyboard],
     [type |-> "kEventHidDisconnect", data |-> 0],
     [type |-> "kEventClockExt", data |-> 1],
     [type |-> "kEventMonomeDisconnect", data |-> 0],
     [type |-> "kEventKeyTimer", data |-> 0]}

\* the polled subsystems called among output actions
PollsOf(actions) ==
    {actions[i].addr[1] : i \in {j \in DOMAIN actions : actions[j].kind = "poll"}}

\* the runs of the polled subsystems in the iteration are recorded
Polled ==
    polled' = [s \in DOMAIN polled |->
                  IF s \in PollsOf(out')
                  THEN [n |-> Min(polled[s].n + 1, 2), at |-> tcTicks,
                        gap |-> tcTicks - polled[s].at]
                  ELSE polled[s]]

NextLoop ==
    \/ \E e \in LoopEvents :
          /\ tcTicks \in PostTicks
          /\ Len(events) < MaxQueue
          /\ event_post(e)
          /\ Did("event_post", <<e.type>>)
          /\ UNCHANGED history
    \/ /\ tcTicks < MaxTicks
       /\ last_op.op = "main"
       /\ irq_tc
       /\ Did("irq_tc", <<>>)
       /\ UNCHANGED history
    \/ /\ main
       /\ Did("main", IF events = <<>> THEN <<>> ELSE <<Head(events).type>>)
       /\ Polled
       /\ UNCHANGED <<routing_history, sounding, written, reg, conv, played,
                      transposed, ceilings>>

SpecLoop == Init /\ [][NextLoop]_vars

\* ---------------------------------------------------------------------------
\* specification of the conversions: a conversion function and its arguments
\* are drawn, and the function is applied. Monotonicity is observed on two
\* neighbouring arguments.

MaxNote == 127

VolumeSamples == {0, 1, 2, 127, 128, 8191, 8192, MAX_LEVEL - 1, MAX_LEVEL}

Conversion(fn, args) == [fn |-> fn, args |-> args, res |-> <<>>, done |-> FALSE]

ConvertInputs ==
    {Conversion("note_to_pitch", <<n, n + 1>>) : n \in 0..(MaxNote - 1)}
    \cup {Conversion("pitch_to_note", <<p, p + 1>>) : p \in 0..(MAX_LEVEL - 1)}
    \cup {Conversion("round_trip", <<n>>) : n \in 0..MaxNote}
    \cup {Conversion("ScaleVolume", <<v, m>>) : v \in VolumeSamples, m \in VolumeSamples}

\* the results are recorded; a conversion changes no state
Converted(fn, res) ==
    /\ ~conv.done
    /\ conv.fn = fn
    /\ conv' = [conv EXCEPT !.res = res, !.done = TRUE]
    /\ Did(fn, conv.args)
    /\ UNCHANGED <<routing, last_pitch, transposes, max_volumes, scheduler, txo_mode,
                   txo_refresh, cv_values, i2c_role, jf_mode, timers, out, calls,
                   bus, routing_history, sounding, written, reg, polled, played,
                   transposed, ceilings>>

NextConvert ==
    \/ Converted("note_to_pitch",
                 <<note_to_pitch(conv.args[1]), note_to_pitch(conv.args[2])>>)
    \/ Converted("pitch_to_note",
                 <<pitch_to_note(conv.args[1]), pitch_to_note(conv.args[2])>>)
    \/ Converted("round_trip", <<pitch_to_note(note_to_pitch(conv.args[1]))>>)
    \/ Converted("ScaleVolume", <<ScaleVolume(conv.args[1], conv.args[2])>>)

\* the state after construction, with the inputs of one conversion chosen
InitConvert == init_state_Values /\ control_initialized = 1 /\ conv \in ConvertInputs

SpecConvert == InitConvert /\ [][NextConvert]_vars

\* ---------------------------------------------------------------------------
\* specification of the pitch of a voice: voice 0 is mapped to and unmapped
\* from output 0 of the direct family and of a MIDI family, the direct family
\* is muted and unmuted, notes of two pitches are played on voice 0, loud or
\* with volume 0, a note is played on voice 1, and both voices are released

PitchVoices == {0, 1}
PitchDevices == {VOICE_CV_GATE, VOICE_EX_MIDI_1}

\* <<voice, pitch, volume>> arguments of note_on_v
PitchNotes == ({0} \X {1000, 2000} \X NotesVolumes) \cup {<<1, 1000, 8000>>}

\* the note on is recorded
Played(voice, pitch, volume) ==
    played' = [played EXCEPT ![voice] = [pitch |-> pitch, volume |-> volume,
                                         mapped |-> Targets(voice) # <<>>]]

NextPitch ==
    \/ \E d \in PitchDevices, on \in {0, 1} :
          /\ map_voice(0, d, 0, on)
          /\ Did("map_voice", <<>>)
          /\ UNCHANGED history
    \/ \E m \in {0, 1} :
          /\ mute_device(VOICE_CV_GATE, m)
          /\ Did("mute_device", <<>>)
          /\ UNCHANGED history
    \/ \E n \in PitchNotes :
          /\ note_on_v(n[1], n[2], n[3])
          /\ Did("note_on_v", n)
          /\ Played(n[1], n[2], n[3])
          /\ UNCHANGED <<routing_history, sounding, written, reg, polled, conv,
                         transposed, ceilings>>
    \/ \E v \in PitchVoices :
          /\ note_off(v)
          /\ Did("note_off", <<v>>)
          /\ UNCHANGED history

SpecPitch == Init /\ [][NextPitch]_vars

\* ---------------------------------------------------------------------------
\* specification of the transposes: the module leads the bus, voice 0 keeps
\* its CV and gate and is mapped to output 0 of one bus family at a time, the transpose
\* of output 0 of these families and of a family out of range is set, and a
\* note is played

TransposeFamilies == {VOICE_CV_GATE, VOICE_ER301, VOICE_TXO_NOTE, VOICE_TXO_CV_GATE}
TransposeValues == {0, 100}

\* the transpose set is recorded
Transposed(device, pitch) ==
    transposed' = IF <<device, 0>> \in DOMAIN transposed
                  THEN [transposed EXCEPT ![<<device, 0>>] = pitch]
                  ELSE transposed

NextTranspose ==
    \/ /\ set_as_i2c_leader
       /\ Did("set_as_i2c_leader", <<>>)
       /\ UNCHANGED history
    \/ \E d \in TransposeFamilies \ {VOICE_CV_GATE} :
          /\ \A e \in TransposeFamilies \ {VOICE_CV_GATE} : ~_is_voice_mapped(0, e, 0)
          /\ map_voice(0, d, 0, 1)
          /\ Did("map_voice", <<>>)
          /\ UNCHANGED history
    \/ \E d \in TransposeFamilies \ {VOICE_CV_GATE} :
          /\ map_voice(0, d, 0, 0)
          /\ Did("map_voice", <<>>)
          /\ UNCHANGED history
    \/ \E d \in TransposeFamilies \cup {MAX_DEVICE_COUNT}, x \in TransposeValues :
          /\ set_output_transpose_v(d, 0, x)
          /\ Did("set_output_transpose_v", <<d, 0, x>>)
          /\ Transposed(d, x)
          /\ UNCHANGED <<routing_history, sounding, written, reg, polled, conv, played,
                         ceilings>>
    \/ \E p \in NotesPitches, vol \in NotesVolumes \ {0} :
          /\ note_on_v(0, p, vol)
          /\ Did("note_on_v", <<0, p, vol>>)
          /\ UNCHANGED history

SpecTranspose == Init /\ [][NextTranspose]_vars

\* ---------------------------------------------------------------------------
\* specification of the max volumes: the module leads the bus, voice 0 keeps
\* its CV and gate and is mapped to output 0 of one MIDI family at a time, the
\* max volume of output 0 of these families and of a family out of range is
\* set, and a note is played

VolumeFamilies == {VOICE_EX_MIDI_1, VOICE_EX_MIDI_CH, VOICE_I2C2MIDI_1, VOICE_I2C2MIDI_CH}
VolumeValues == {MAX_LEVEL, 8192}

\* the max volume set is recorded
Limited(device, volume) ==
    ceilings' = IF <<device, 0>> \in DOMAIN ceilings
                THEN [ceilings EXCEPT ![<<device, 0>>] = volume]
                ELSE ceilings

NextVolume ==
    \/ /\ set_as_i2c_leader
       /\ Did("set_as_i2c_leader", <<>>)
       /\ UNCHANGED history
    \/ \E d \in VolumeFamilies :
          /\ \A e \in VolumeFamilies : ~_is_voice_mapped(0, e, 0)
          /\ map_voice(0, d, 0, 1)
          /\ Did("map_voice", <<>>)
          /\ UNCHANGED history
    \/ \E d \in VolumeFamilies :
          /\ map_voice(0, d, 0, 0)
          /\ Did("map_voice", <<>>)
          /\ UNCHANGED history
    \/ \E d \in VolumeFamilies \cup {MAX_DEVICE_COUNT}, x \in VolumeValues :
          /\ set_output_max_volume(d, 0, x)
          /\ Did("set_output_max_volume", <<d, 0, x>>)
          /\ Limited(d, x)
          /\ UNCHANGED <<routing_history, sounding, written, reg, polled, conv, played,
                         transposed>>
    \/ \E p \in NotesPitches, vol \in NotesVolumes \ {0} :
          /\ note_on_v(0, p, vol)
          /\ Did("note_on_v", <<0, p, vol>>)
          /\ UNCHANGED history

SpecVolume == Init /\ [][NextVolume]_vars

\* ---------------------------------------------------------------------------
\* specification of the MIDI families: the module leads the bus, voice 0 keeps
\* its CV and gate and is mapped to output 0 of one MIDI family at a time, the
\* transpose of output 0 of these families is set, and notes are played and
\* stopped

MidiFamilies == {VOICE_EX_MIDI_1, VOICE_EX_MIDI_CH, VOICE_I2C2MIDI_1, VOICE_I2C2MIDI_CH}
MidiPitches == {0, 150}
MidiTransposes == {0, 100}

NextMidi ==
    \/ /\ set_as_i2c_leader
       /\ Did("set_as_i2c_leader", <<>>)
       /\ UNCHANGED history
    \/ \E d \in MidiFamilies :
          /\ \A e \in MidiFamilies : ~_is_voice_mapped(0, e, 0)
          /\ map_voice(0, d, 0, 1)
          /\ Did("map_voice", <<>>)
          /\ UNCHANGED history
    \/ \E d \in MidiFamilies :
          /\ map_voice(0, d, 0, 0)
          /\ Did("map_voice", <<>>)
          /\ UNCHANGED history
    \/ \E d \in MidiFamilies, x \in MidiTransposes :
          /\ set_output_transpose_v(d, 0, x)
          /\ Did("set_output_transpose_v", <<d, 0, x>>)
          /\ Transposed(d, x)
          /\ UNCHANGED <<routing_history, sounding, written, reg, polled, conv, played,
                         ceilings>>
    \/ \E p \in MidiPitches, vol \in NotesVolumes \ {0} :
          /\ note_on_v(0, p, vol)
          /\ Did("note_on_v", <<0, p, vol>>)
          /\ UNCHANGED history
    \/ /\ note_off(0)
       /\ Did("note_off", <<0>>)
       /\ UNCHANGED history

SpecMidi == Init /\ [][NextMidi]_vars

\* ---------------------------------------------------------------------------
\* specification of the disting EX: the module leads the bus, voice 0 is
\* mapped to two outputs of the disting EX, the max volume of the first is
\* set, and notes of different pitches are played and stopped

DistingOutputs == {0, 5}
DistingPitches == {0, 3277}
DistingVolumes == {0, MAX_LEVEL}

NextDisting ==
    \/ /\ set_as_i2c_leader
       /\ Did("set_as_i2c_leader", <<>>)
       /\ UNCHANGED history
    \/ \E o \in DistingOutputs, on \in {0, 1} :
          /\ map_voice(0, VOICE_DISTING_EX, o, on)
          /\ Did("map_voice", <<>>)
          /\ UNCHANGED history
    \/ \E x \in DistingVolumes :
          /\ set_output_max_volume(VOICE_DISTING_EX, 0, x)
          /\ Did("set_output_max_volume", <<VOICE_DISTING_EX, 0, x>>)
          /\ UNCHANGED history
    \/ \E p \in DistingPitches, vol \in NotesVolumes :
          /\ note_on_v(0, p, vol)
          /\ Did("note_on_v", <<0, p, vol>>)
          /\ UNCHANGED history
    \/ /\ note_off(0)
       /\ Did("note_off", <<0>>)
       /\ UNCHANGED history

SpecDisting == Init /\ [][NextDisting]_vars

\* ---------------------------------------------------------------------------
\* specification of the TELEXo modes: the module follows or leads the bus,
\* voice 0 is mapped to TELEXo note outputs of the first and of the second
\* TELEXo, the mode and the CV of these outputs and of an output out of range
\* are set directly, and notes are played and stopped

TxoNoteOutputs == {0, 5}
TxoModes == {0, 1}

NextTxo ==
    \/ /\ set_as_i2c_leader
       /\ Did("set_as_i2c_leader", <<>>)
       /\ UNCHANGED history
    \/ \E o \in TxoNoteOutputs, on \in {0, 1} :
          /\ map_voice(0, VOICE_TXO_NOTE, o, on)
          /\ Did("map_voice", <<>>)
          /\ UNCHANGED history
    \/ \E o \in TxoNoteOutputs \cup {MAX_TXO_OUTPUT_COUNT}, m \in TxoModes :
          /\ set_txo_mode(o, m)
          /\ Did("set_txo_mode", <<o, m>>)
          /\ UNCHANGED history
    \/ \E o \in TxoNoteOutputs \cup {MAX_TXO_OUTPUT_COUNT} :
          /\ set_txo_cv(o, BusValue)
          /\ Did("set_txo_cv", <<o, BusValue>>)
          /\ UNCHANGED history
    \/ \E p \in NotesPitches, vol \in NotesVolumes :
          /\ note_on_v(0, p, vol)
          /\ Did("note_on_v", <<0, p, vol>>)
          /\ UNCHANGED history
    \/ /\ note_off(0)
       /\ Did("note_off", <<0>>)
       /\ UNCHANGED history

SpecTxo == Init /\ [][NextTxo]_vars

\* ---------------------------------------------------------------------------
\* specification of the reach of the dispatch: voice 0 is mapped to and
\* unmapped from low and high outputs of three bus families, and notes are
\* played and stopped

ReachFamilies == {VOICE_ER301, VOICE_DISTING_EX, VOICE_EX_MIDI_1}
ReachOutputs == {7, 8, 15, 31}

NextReach ==
    \/ \E d \in ReachFamilies, o \in ReachOutputs, on \in {0, 1} :
          /\ map_voice(0, d, o, on)
          /\ Did("map_voice", <<0, d, o, on>>)
          /\ UNCHANGED history
    \/ \E p \in NotesPitches, vol \in NotesVolumes \ {0} :
          /\ note_on_v(0, p, vol)
          /\ Did("note_on_v", <<0, p, vol>>)
          /\ UNCHANGED history
    \/ /\ note_off(0)
       /\ Did("note_off", <<0>>)
       /\ UNCHANGED history

SpecReach == Init /\ [][NextReach]_vars

\* ---------------------------------------------------------------------------
\* specification of the failing outputs: voice 0 is mapped to outputs that
\* exist and to outputs their encoder rejects (a CV output the hardware does
\* not have, a Just Friends output past the last), a family is muted, the
\* module follows or leads the bus, and notes are played and stopped

FailingTargets ==
    {<<VOICE_CV_GATE, 5>>, <<VOICE_JF, 7>>, <<VOICE_JF, 0>>, <<VOICE_ER301, 0>>,
     <<VOICE_TXO_NOTE, 1>>}

NextFailing ==
    \/ \E t \in FailingTargets, on \in {0, 1} :
          /\ map_voice(0, t[1], t[2], on)
          /\ Did("map_voice", <<>>)
          /\ UNCHANGED history
    \/ \E m \in {0, 1} :
          /\ mute_device(VOICE_ER301, m)
          /\ Did("mute_device", <<>>)
          /\ UNCHANGED history
    \/ /\ set_as_i2c_leader
       /\ Did("set_as_i2c_leader", <<>>)
       /\ UNCHANGED history
    \/ \E p \in NotesPitches, vol \in NotesVolumes \ {0} :
          /\ note_on_v(0, p, vol)
          /\ Did("note_on_v", <<0, p, vol>>)
          /\ UNCHANGED history
    \/ /\ note_off(0)
       /\ Did("note_off", <<0>>)
       /\ UNCHANGED history

SpecFailing == Init /\ [][NextFailing]_vars

\* ---------------------------------------------------------------------------
\* specification of the scan of the flush: the three batched parameters of
\* two TELEXo outputs and of an output out of range are written, the module
\* follows or leads the bus, and the parameters are flushed

ScanWrites ==
    {<<"attack", 2, 10>>, <<"attack", 2, 300>>, <<"decay", 2, 300>>,
     <<"waveform", 2, 300>>, <<"attack", 5, 300>>, <<"waveform", 5, 300>>,
     <<"decay", MAX_TXO_OUTPUT_COUNT, 300>>}

NextScan ==
    \/ \E w \in ScanWrites :
          /\ w[1] = "attack"
          /\ set_txo_attack(w[2], w[3])
          /\ Did("set_txo_attack", <<w[2], w[3]>>)
          /\ UNCHANGED history
    \/ \E w \in ScanWrites :
          /\ w[1] = "decay"
          /\ set_txo_decay(w[2], w[3])
          /\ Did("set_txo_decay", <<w[2], w[3]>>)
          /\ UNCHANGED history
    \/ \E w \in ScanWrites :
          /\ w[1] = "waveform"
          /\ set_txo_waveform(w[2], w[3])
          /\ Did("set_txo_waveform", <<w[2], w[3]>>)
          /\ UNCHANGED history
    \/ /\ refresh_i2c
       /\ Did("refresh_i2c", <<>>)
       /\ UNCHANGED history
    \/ /\ set_as_i2c_leader
       /\ Did("set_as_i2c_leader", <<>>)
       /\ UNCHANGED history

SpecScan == Init /\ [][NextScan]_vars

\* ---------------------------------------------------------------------------
\* specification of the frames received: leaders send frames shorter than, as
\* long as and longer than event_data to the module

MaxFrame == 18
FrameBytes == {1, 2, 3, 4, 5, 6}

\* a frame of n bytes that starts with byte b
Frame(n, b) == [i \in 1..n |-> U8(b + i - 1)]

NextFrames ==
    \E n \in 0..MaxFrame, b \in FrameBytes :
        /\ process_i2c(Frame(n, b))
        /\ Did("process_i2c", <<n, b>>)
        /\ UNCHANGED history

SpecFrames == Init /\ [][NextFrames]_vars

\* ---------------------------------------------------------------------------
\* specification of the raw setters: the module follows or leads the bus and
\* each raw setter is called for the first output of its family and for the
\* output just past the last

SetterOutputs(count) == {0, count}

NextSetters ==
    \/ /\ set_as_i2c_leader
       /\ Did("set_as_i2c_leader", <<>>)
       /\ UNCHANGED history
    \/ \E o \in SetterOutputs(MAX_ER301_OUTPUT_COUNT) :
          /\ set_er301_cv(o, BusValue)
          /\ Did("set_er301_cv", <<o, BusValue>>)
          /\ UNCHANGED history
    \/ \E o \in SetterOutputs(MAX_ER301_OUTPUT_COUNT) :
          /\ set_er301_gate(o, 1)
          /\ Did("set_er301_gate", <<o, 1>>)
          /\ UNCHANGED history
    \/ \E o \in SetterOutputs(MAX_JF_OUTPUT_COUNT) :
          /\ set_jf_gate(o, 1)
          /\ Did("set_jf_gate", <<o, 1>>)
          /\ UNCHANGED history
    \/ \E o \in SetterOutputs(MAX_TXO_OUTPUT_COUNT) :
          /\ set_txo_cv(o, BusValue)
          /\ Did("set_txo_cv", <<o, BusValue>>)
          /\ UNCHANGED history
    \/ \E o \in SetterOutputs(MAX_TXO_OUTPUT_COUNT) :
          /\ set_txo_gate(o, 1)
          /\ Did("set_txo_gate", <<o, 1>>)
          /\ UNCHANGED history
    \/ \E o \in SetterOutputs(MAX_TXO_OUTPUT_COUNT), m \in TxoModes :
          /\ set_txo_mode(o, m)
          /\ Did("set_txo_mode", <<o, m>>)
          /\ UNCHANGED history
    \/ \E o \in SetterOutputs(MAX_TXO_OUTPUT_COUNT) :
          /\ set_txo_attack(o, BusValue)
          /\ Did("set_txo_attack", <<o, BusValue>>)
          /\ UNCHANGED history
    \/ \E o \in SetterOutputs(MAX_TXO_OUTPUT_COUNT) :
          /\ set_txo_decay(o, BusValue)
          /\ Did("set_txo_decay", <<o, BusValue>>)
          /\ UNCHANGED history
    \/ \E o \in SetterOutputs(MAX_TXO_OUTPUT_COUNT) :
          /\ set_txo_waveform(o, BusValue)
          /\ Did("set_txo_waveform", <<o, BusValue>>)
          /\ UNCHANGED history

SpecSetters == Init /\ [][NextSetters]_vars

\* ---------------------------------------------------------------------------
\* specification of the addressing: the module leads the bus, the gate of
\* every TELEXo output and the CV of two of them are set, positive and
\* negative, and voice 0 plays notes on one disting EX output at a time

AddressValues == {300, -2}
AddressCvOutputs == {4, 15}

NextAddress ==
    \/ /\ set_as_i2c_leader
       /\ Did("set_as_i2c_leader", <<>>)
       /\ UNCHANGED history
    \/ \E o \in 0..(MAX_TXO_OUTPUT_COUNT - 1) :
          /\ set_txo_gate(o, 1)
          /\ Did("set_txo_gate", <<o, 1>>)
          /\ UNCHANGED history
    \/ \E o \in AddressCvOutputs, x \in AddressValues :
          /\ set_txo_cv(o, x)
          /\ Did("set_txo_cv", <<o, x>>)
          /\ UNCHANGED history
    \/ \E o \in 0..(MAX_OUTPUT_COUNT - 1) :
          /\ \A e \in 0..(MAX_OUTPUT_COUNT - 1) : ~_is_voice_mapped(0, VOICE_DISTING_EX, e)
          /\ map_voice(0, VOICE_DISTING_EX, o, 1)
          /\ Did("map_voice", <<>>)
          /\ UNCHANGED history
    \/ \E o \in 0..(MAX_OUTPUT_COUNT - 1) :
          /\ map_voice(0, VOICE_DISTING_EX, o, 0)
          /\ Did("map_voice", <<>>)
          /\ UNCHANGED history
    \/ \E p \in NotesPitches, vol \in NotesVolumes \ {0} :
          /\ note_on_v(0, p, vol)
          /\ Did("note_on_v", <<0, p, vol>>)
          /\ UNCHANGED history

SpecAddress == Init /\ [][NextAddress]_vars

\* ---------------------------------------------------------------------------
\* specification of the timer indices: the application adds, stops and
\* re-times the timers of the last index of the array, of the index one past
\* it and of indices beyond, while the millisecond tick runs

RangeIndices == {TIMED_EVENT_COUNT - 1, TIMED_EVENT_COUNT, TIMED_EVENT_COUNT + 1, 255}

NextRange ==
    \/ \E i \in RangeIndices, ms \in AddPeriods, r \in {0, 1} :
          /\ add_timed_event(i, ms, r)
          /\ Did("add_timed_event", <<i, ms, r>>)
          /\ UNCHANGED history
    \/ \E i \in RangeIndices :
          /\ stop_timed_event(i)
          /\ Did("stop_timed_event", <<i>>)
          /\ UNCHANGED history
    \/ \E i \in RangeIndices, ms \in UpdatePeriods :
          /\ update_timer_interval(i, ms)
          /\ Did("update_timer_interval", <<i, ms>>)
          /\ UNCHANGED history
    \/ /\ process_timers
       /\ Did("process_timers", <<>>)
       /\ UNCHANGED history

SpecRange == Init /\ [][NextRange]_vars

\* ---------------------------------------------------------------------------
\* specification of the start: main has enabled the interrupts and calls
\* initialize_control. The application registers a timed event, in
\* init_control or later, the millisecond tick serves the timers, leaders send
\* frames, a device connects, and the loop of main runs once
\* initialize_control has returned

BootFrames == {Frame(1, 1), Frame(2, 5)}
BootEvents == {[type |-> "kEventMidiConnect", data |-> 0]}

NextBoot ==
    \/ /\ control_initialized = 0
       /\ initialize_control
       /\ Did("initialize_control", <<>>)
       /\ UNCHANGED history
    \/ \E ms \in AddPeriods, r \in {0, 1} :
          /\ add_timed_event(TimerIndex, ms, r)
          /\ Did("add_timed_event", <<TimerIndex, ms, r>>)
          /\ UNCHANGED history
    \/ /\ process_timers
       /\ Did("process_timers", <<>>)
       /\ UNCHANGED history
    \/ \E data \in BootFrames :
          /\ process_i2c(data)
          /\ Did("process_i2c", <<data>>)
          /\ UNCHANGED history
    \/ \E e \in BootEvents :
          /\ Len(events) < MaxQueue
          /\ event_post(e)
          /\ Did("event_post", <<e.type>>)
          /\ UNCHANGED history
    \/ /\ control_initialized = 1
       /\ main
       /\ Did("main", IF events = <<>> THEN <<>> ELSE <<Head(events).type>>)
       /\ UNCHANGED history

SpecBoot == InitBoot /\ [][NextBoot]_vars

\* ---------------------------------------------------------------------------
\* specification of the role changes: the application makes the module lead
\* or follow the bus, with and without a follower address, and sets the mode
\* of Just Friends

RoleAddresses == {0, 102}

NextRole ==
    \/ /\ set_as_i2c_leader
       /\ Did("set_as_i2c_leader", <<>>)
       /\ Track
       /\ UNCHANGED <<sounding, written, reg, observations>>
    \/ \E a \in RoleAddresses :
          /\ set_as_i2c_follower(a)
          /\ Did("set_as_i2c_follower", <<a>>)
          /\ Track
          /\ UNCHANGED <<sounding, written, reg, observations>>
    \/ \E m \in JfModes :
          /\ set_jf_mode(m)
          /\ Did("set_jf_mode", <<m>>)
          /\ Track
          /\ UNCHANGED <<sounding, written, reg, observations>>
    \/ /\ set_jf_gate(0, 1)
       /\ Did("set_jf_gate", <<0, 1>>)
       /\ Track
       /\ UNCHANGED <<sounding, written, reg, observations>>

SpecRole == Init /\ [][NextRole]_vars

\* ---------------------------------------------------------------------------
\* specification of the quiet notes: the module leads the bus, voice 0 keeps
\* its CV and gate and is mapped to output 0 of one note family of the bus at
\* a time, the max volume of output 0 of the family mapped is set, down to 0,
\* while the other families have the default, and notes are played softly
\* and loudly

QuietFamilies ==
    {VOICE_ER301, VOICE_JF, VOICE_TXO_NOTE, VOICE_DISTING_EX, VOICE_EX_MIDI_1,
     VOICE_EX_MIDI_CH, VOICE_I2C2MIDI_1, VOICE_I2C2MIDI_CH}
QuietCeilings == {MAX_LEVEL, 8192, 0}
QuietVolumes == {1, 8000}

NextQuiet ==
    \/ /\ set_as_i2c_leader
       /\ Did("set_as_i2c_leader", <<>>)
       /\ UNCHANGED history
    \/ \E d \in QuietFamilies :
          /\ \A e \in QuietFamilies : ~_is_voice_mapped(0, e, 0)
          /\ map_voice(0, d, 0, 1)
          /\ Did("map_voice", <<>>)
          /\ UNCHANGED history
    \/ \E d \in QuietFamilies :
          /\ map_voice(0, d, 0, 0)
          /\ Did("map_voice", <<>>)
          /\ UNCHANGED history
    \/ \E d \in QuietFamilies, x \in QuietCeilings :
          /\ _is_voice_mapped(0, d, 0)
          /\ \A e \in QuietFamilies \ {d} : ceilings[<<e, 0>>] = MAX_LEVEL
          /\ set_output_max_volume(d, 0, x)
          /\ Did("set_output_max_volume", <<d, 0, x>>)
          /\ Limited(d, x)
          /\ UNCHANGED <<routing_history, sounding, written, reg, polled, conv, played,
                         transposed>>
    \/ \E p \in NotesPitches, vol \in QuietVolumes :
          /\ note_on_v(0, p, vol)
          /\ Did("note_on_v", <<0, p, vol>>)
          /\ UNCHANGED history

SpecQuiet == Init /\ [][NextQuiet]_vars

\* ---------------------------------------------------------------------------
\* specification of the grid keys: the monome interrupts post presses and
\* releases of two keys, connects of a grid and of an arc and disconnects,
\* one event at a time, right after a press, a little later and around the
\* hold time; the loop of main hands them to their handlers, and the
\* millisecond tick serves the timers until the hold time has passed

GridKeys == {<<0, 0>>, <<1, 2>>}
GridPostAges == {0, 2, GRID_HOLD_TIME - 1, GRID_HOLD_TIME}

GridEvents ==
    {[type |-> "kEventMonomeGridKey", data |-> <<k[1], k[2], z>>] :
        k \in GridKeys, z \in {0, 1}}
    \cup {[type |-> "kEventMonomeConnect", data |-> <<arc>>] : arc \in {0, 1}}
    \cup {[type |-> "kEventFtdiDisconnect", data |-> <<0>>]}

\* the life of a hold, kept from the events handled alone: the key of the
\* most recent press, the ticks since (age), whether that key was released
\* or a grid connected or disconnected since (live), the releases of other
\* keys since (others) and the GRID_KEY_HELDs delivered since (fires)
GridHandled(e) ==
    reg' =
        IF e.type = "kEventMonomeGridKey" /\ e.data[3] # 0
        THEN [NoRegistration EXCEPT !.added = TRUE, !.live = TRUE,
                                    !.ms = GRID_HOLD_TIME,
                                    !.key = <<e.data[1], e.data[2]>>]
        ELSE IF e.type = "kEventMonomeGridKey"
             THEN IF reg.key = <<e.data[1], e.data[2]>>
                  THEN [reg EXCEPT !.live = FALSE]
                  ELSE [reg EXCEPT !.others = Min(@ + 1, 1)]
             ELSE IF e.type = "kEventFtdiDisconnect"
                     \/ (e.type = "kEventMonomeConnect" /\ e.data[1] = 0)
                  THEN [reg EXCEPT !.live = FALSE]
                  ELSE reg

\* the GRID_KEY_HELD deliveries among output actions, as the keys they carry
HeldKeys(actions) ==
    LET ms == SelectSeq(actions, LAMBDA m : m.kind = "event" /\ m.addr[2] = GRID_KEY_HELD)
    IN  [i \in DOMAIN ms |-> ms[i].data]

GridTicked ==
    reg' = [reg EXCEPT !.age = IF reg.added THEN @ + 1 ELSE @,
                       !.fires = @ + Len(HeldKeys(out'))]

NextGrid ==
    \/ \E e \in GridEvents :
          /\ events = <<>>
          /\ reg.age \in GridPostAges
          /\ event_post(e)
          /\ Did("event_post", <<e.type>>)
          /\ UNCHANGED history
    \/ /\ events # <<>>
       /\ main
       /\ Did("main", <<Head(events).type, Head(events).data>>)
       /\ GridHandled(Head(events))
       /\ UNCHANGED <<routing_history, sounding, written, observations>>
    \/ /\ events = <<>>
       /\ reg.age <= GRID_HOLD_TIME
       /\ process_timers
       /\ Did("process_timers", <<>>)
       /\ GridTicked
       /\ UNCHANGED <<routing_history, sounding, written, observations>>

SpecGrid == Init /\ [][NextGrid]_vars

\* ---------------------------------------------------------------------------
\* claims about the routing table (SpecRouting)

\* the output-count ceiling of a family: the size of its parameter arrays
OutputCount(device) ==
    CASE device = VOICE_CV_GATE -> MAX_CV_COUNT
      [] device = VOICE_ER301 -> MAX_ER301_OUTPUT_COUNT
      [] device = VOICE_JF -> MAX_JF_OUTPUT_COUNT
      [] device = VOICE_TXO_NOTE -> MAX_TXO_OUTPUT_COUNT
      [] device = VOICE_TXO_CV_GATE -> MAX_TXO_OUTPUT_COUNT
      [] device = VOICE_DISTING_EX -> MAX_DISTING_EX_OUTPUT_COUNT
      [] device = VOICE_EX_MIDI_1 -> MAX_EX_MIDI_1_OUTPUT_COUNT
      [] device = VOICE_EX_MIDI_CH -> MAX_EX_MIDI_CH_OUTPUT_COUNT
      [] device = VOICE_I2C2MIDI_1 -> MAX_I2C2MIDI_1_OUTPUT_COUNT
      [] device = VOICE_I2C2MIDI_CH -> MAX_I2C2MIDI_CH_OUTPUT_COUNT

\* _is_voice_mapped evaluated in a recorded routing state r = <<voice_maps, device_on>>
WasVoiceMapped(r, voice, device, output) ==
    /\ <<VoiceMapsCell(voice, device, output \div 8), output % 8>> \in r[1]
    /\ r[2][device] # 0

\* the arguments are ones the claims call valid for map_voice
ValidTriple(voice, device, output) ==
    /\ voice < MAX_VOICES_COUNT
    /\ device < MAX_DEVICE_COUNT
    /\ output < OutputCount(device)

\* C1 (as claimed): for every voice < 32, family < 10 and output below the
\* family's ceiling: after map_voice(v,f,o,1) on an unmuted family
\* _is_voice_mapped(v,f,o) is true; after then mute_device(f,1) it is false;
\* after then mute_device(f,0) it is true again.
C1_MapMuteUnmute ==
    /\ (/\ last_op.op = "map_voice"
        /\ ValidTriple(last_op.args[1], last_op.args[2], last_op.args[3])
        /\ last_op.args[4] # 0
        /\ device_on[last_op.args[2]] # 0)
       => _is_voice_mapped(last_op.args[1], last_op.args[2], last_op.args[3])
    /\ (/\ prev_op.op = "map_voice"
        /\ ValidTriple(prev_op.args[1], prev_op.args[2], prev_op.args[3])
        /\ prev_op.args[4] # 0
        /\ last_op = Op("mute_device", <<prev_op.args[2], 1>>))
       => ~_is_voice_mapped(prev_op.args[1], prev_op.args[2], prev_op.args[3])
    /\ (/\ last_op.op = "mute_device"
        /\ last_op.args[1] < MAX_DEVICE_COUNT
        /\ last_op.args[2] = 0
        /\ prev_op = Op("mute_device", <<last_op.args[1], 1>>))
       => \A v \in 0..(MAX_VOICES_COUNT - 1) :
            \A o \in 0..(OutputCount(last_op.args[1]) - 1) :
               WasVoiceMapped(pre2, v, last_op.args[1], o)
                  => _is_voice_mapped(v, last_op.args[1], o)

\* C2: mute_device(f, m) with f < 10 changes only the mute flag of family f
\* (no routing bit, no other family's flag); mute_device(f,1) then
\* mute_device(f,0) on an unmuted family leaves _is_voice_mapped of every
\* triple as it was before; mute_device with f >= 10 changes nothing.
C2_MuteChangesOnlyItsFlag ==
    /\ last_op.op = "mute_device"
       => /\ voice_maps = pre1[1]
          /\ \A d \in 0..(MAX_DEVICE_COUNT - 1) :
                d # last_op.args[1] => device_on[d] = pre1[2][d]
          /\ last_op.args[1] < MAX_DEVICE_COUNT
                => device_on[last_op.args[1]] = (IF last_op.args[2] # 0 THEN 0 ELSE 1)
    /\ (/\ last_op.op = "mute_device"
        /\ last_op.args[1] < MAX_DEVICE_COUNT
        /\ last_op.args[2] = 0
        /\ prev_op = Op("mute_device", <<last_op.args[1], 1>>)
        /\ pre2[2][last_op.args[1]] # 0)
       => \A v \in 0..(MAX_VOICES_COUNT - 1), d \in 0..(MAX_DEVICE_COUNT - 1) :
             \A o \in 0..(Max(OutputCount(d), MAX_OUTPUT_COUNT) - 1) :
                _is_voice_mapped(v, d, o) <=> WasVoiceMapped(pre2, v, d, o)

\* C2 witness: family 0 was unmuted with voice 0 mapped to its output 0, was
\* muted and has just been unmuted, and voice 0 is mapped again
C2_Witness ==
    /\ last_op = Op("mute_device", <<VOICE_CV_GATE, 0>>)
    /\ prev_op = Op("mute_device", <<VOICE_CV_GATE, 1>>)
    /\ WasVoiceMapped(pre2, 0, VOICE_CV_GATE, 0)
    /\ WasVoiceMapped(pre2, 0, VOICE_JF, 0)
    /\ ~WasVoiceMapped(pre1, 0, VOICE_CV_GATE, 0)
    /\ _is_voice_mapped(0, VOICE_CV_GATE, 0)

\* C3 (as claimed): map_voice(v,f,o,on) with o at or above the ceiling of
\* family f, or v >= 32, or f >= 10, leaves every routing bit unchanged and
\* emits no bus transaction.
C3_MapOutOfRangeIsNoOp ==
    (/\ last_op.op = "map_voice"
     /\ ~ValidTriple(last_op.args[1], last_op.args[2], last_op.args[3]))
    => /\ voice_maps = pre1[1]
       /\ out = <<>>

\* ---------------------------------------------------------------------------
\* claims about note dispatch (SpecNotes)

\* the output actions of a run that were produced for one target
OnTarget(actions, t) == SelectSeq(actions, LAMBDA m : m.via = t)

\* the targets of a voice, as a set
TargetSet(voice) == {Targets(voice)[i] : i \in 1..Len(Targets(voice))}

\* C4: on every output the voice is mapped to through an unmuted family,
\* note_on_v(v, p, 0) produces exactly the sequence of output actions that
\* note_off(v) produces from the same state with last_pitch[v] = p
C4_ZeroVolumeIsNoteOff ==
    [][\A v \in NotesVoices, p \in NotesPitches :
          (v < MAX_VOICES_COUNT /\ last_op' = Op("note_on_v", <<v, p, 0>>))
          => \A t \in TargetSet(v) :
                OnTarget(out', t) = OnTarget(NoteOffRun(v, p).out, t)]_vars

\* ---------------------------------------------------------------------------
\* claims about fan-out (SpecFanout)

\* every <<family, output>> the voice is mapped to and whose family is unmuted
Mapped(voice) ==
    {t \in (0..(MAX_DEVICE_COUNT - 1)) \X (0..(MAX_OUTPUT_COUNT - 1)) :
        _is_voice_mapped(voice, t[1], t[2])}

\* the documented family order
FamilyOrder ==
    <<VOICE_CV_GATE, VOICE_ER301, VOICE_JF, VOICE_TXO_NOTE, VOICE_TXO_CV_GATE,
      VOICE_DISTING_EX, VOICE_EX_MIDI_1, VOICE_EX_MIDI_CH, VOICE_I2C2MIDI_1,
      VOICE_I2C2MIDI_CH>>

\* the position of a call in the documented order
Rank(c) ==
    (CHOOSE i \in 1..Len(FamilyOrder) : FamilyOrder[i] = c.device) * MAX_OUTPUT_COUNT
    + c.output

\* the encoder of each family
EncoderOf(device) ==
    CASE device = VOICE_CV_GATE -> "_send_note"
      [] device = VOICE_ER301 -> "_send_er301_note"
      [] device = VOICE_JF -> "_send_jf_note"
      [] device = VOICE_TXO_NOTE -> "_send_txo_note"
      [] device = VOICE_DISTING_EX -> "_send_disting_ex_note"
      [] device = VOICE_EX_MIDI_1 -> "_send_ex_midi_1_note"
      [] device = VOICE_EX_MIDI_CH -> "_send_ex_midi_ch_note"
      [] device = VOICE_I2C2MIDI_1 -> "_send_i2c2midi_1_note"
      [] device = VOICE_I2C2MIDI_CH -> "_send_i2c2midi_ch_note"

\* what one invocation of a family's encoder with (pitch, volume) looks like.
\* TELEXo CV/gate is driven through its CV and gate setters: pitch and gate
\* high for a sounding note, gate low for volume 0, as the direct encoder does
EncoderCalls(t, pitch, volume) ==
    IF t[1] = VOICE_TXO_CV_GATE
    THEN IF volume # 0
         THEN <<[device |-> t[1], output |-> t[2], fn |-> "_set_txo_cv",
                 args |-> <<t[2], pitch>>],
                [device |-> t[1], output |-> t[2], fn |-> "_set_txo_gate",
                 args |-> <<t[2], 1>>]>>
         ELSE <<[device |-> t[1], output |-> t[2], fn |-> "_set_txo_gate",
                 args |-> <<t[2], 0>>]>>
    ELSE <<[device |-> t[1], output |-> t[2], fn |-> EncoderOf(t[1]),
            args |-> <<t[2], pitch, volume>>]>>

\* the calls of a run made for one target
CallsFor(t) == SelectSeq(calls, LAMBDA c : <<c.device, c.output>> = t)

\* the voice is mapped to a direct output and to outputs of two bus families
FanoutCase(voice) ==
    /\ \E t \in Mapped(voice) : t[1] = VOICE_CV_GATE
    /\ \E a, b \in Mapped(voice) :
          a[1] # VOICE_CV_GATE /\ b[1] # VOICE_CV_GATE /\ a[1] # b[1]

\* C7: with the voice mapped to a direct output and to outputs of two bus
\* families, note_on_v(v, p, vol) invokes the encoder of every mapped output
\* exactly once, with (p, vol), and no other; the invocations follow the
\* documented family order, ascending output index within a family
C7_FanoutOnceInOrder ==
    \A p \in NotesPitches, vol \in NotesVolumes :
       (last_op = Op("note_on_v", <<0, p, vol>>) /\ FanoutCase(0))
       => /\ \A t \in Mapped(0) : CallsFor(t) = EncoderCalls(t, p, vol)
          /\ \A i \in 1..Len(calls) : <<calls[i].device, calls[i].output>> \in Mapped(0)
          /\ \A i, j \in 1..Len(calls) : i < j => Rank(calls[i]) <= Rank(calls[j])

\* ---------------------------------------------------------------------------
\* claims about re-routing while a note sounds (SpecRemap)

\* an output action that releases a note: the gate driven low, or the
\* trigger command TO_TR with state 0
IsOff(m) ==
    /\ m.data[Len(m.data)] = 0
    /\ m.kind = "gate" \/ (m.kind = "i2c" /\ m.data[1] = TO_TR)

\* an output whose actions leave the module: a direct output the hardware
\* has, or a bus output while the module leads the bus
Reachable(t) ==
    IF t[1] = VOICE_CV_GATE
    THEN t[2] < HARDWARE_GATE_OUTPUT_COUNT
    ELSE is_i2c_leader # 0

SoundingSet(voice) == {sounding[voice][i] : i \in 1..Len(sounding[voice])}

\* C8: note_off(v) dispatches by the routing and mute state at the time of
\* the call: every output mapped then is served and, when reachable, receives
\* an off message; an output not mapped then is not served and receives
\* nothing, whether or not the last note on reached it
C8_NoteOffUsesLiveRouting ==
    last_op = Op("note_off", <<0>>)
    => \A t \in (0..(MAX_DEVICE_COUNT - 1)) \X (0..(MAX_OUTPUT_COUNT - 1)) :
          IF t \in Mapped(0)
          THEN /\ CallsFor(t) # <<>>
               /\ Reachable(t) => \E i \in 1..Len(out) : out[i].via = t /\ IsOff(out[i])
          ELSE /\ CallsFor(t) = <<>>
               /\ \A i \in 1..Len(out) : out[i].via # t

\* a note was played on output A, the voice was moved to bus output B, and
\* the note off reached B and not A
C8_Witness ==
    /\ last_op = Op("note_off", <<0>>)
    /\ is_i2c_leader # 0
    /\ \E a \in SoundingSet(0) \ Mapped(0), b \in Mapped(0) \ SoundingSet(0) :
          /\ b[1] # VOICE_CV_GATE
          /\ \E i \in 1..Len(out) : out[i].via = b /\ IsOff(out[i])
          /\ \A i \in 1..Len(out) : out[i].via # a

\* ---------------------------------------------------------------------------
\* claims about the parameter flush (SpecFlush)

\* the bus commands `command` addressed to a TELEXo output among the output
\* actions of the last operation, as the values they carry
TxoCommands(output, command) ==
    LET ms == SelectSeq(out, LAMBDA m :
                  /\ m.kind = "i2c"
                  /\ m.addr = <<"TELEXO", output \div 4>>
                  /\ m.data[1] = command
                  /\ m.data[2] = output % 4)
    IN  [i \in 1..Len(ms) |-> ms[i].data[3] * 256 + ms[i].data[4]]

FlushCommand(field) ==
    CASE field = "attack" -> TO_ENV_ATT
      [] field = "decay" -> TO_ENV_DEC
      [] field = "waveform" -> TO_OSC_WAVE

\* C5: set_txo_attack, set_txo_decay and set_txo_waveform emit no bus
\* transaction themselves; a refresh_i2c run as leader sends, for the
\* observed output, exactly one TO_ENV_ATT / TO_ENV_DEC / TO_OSC_WAVE
\* command per parameter written since the previous flush, carrying the last
\* value written, and none for a parameter not written since
C5_FlushSendsLastValueOnce ==
    /\ last_op.op \in {"set_txo_attack", "set_txo_decay", "set_txo_waveform"}
       => out = <<>>
    /\ (last_op.op = "refresh_i2c" /\ is_i2c_leader # 0)
       => \A f \in {"attack", "decay", "waveform"} :
             TxoCommands(FlushOutput, FlushCommand(f)) =
                IF written.sent[f].n > 0 THEN <<written.sent[f].last>> ELSE <<>>

\* the attack of the observed output was written more than once since the
\* previous flush, the decay not at all, and the leader has just flushed
C5_Witness ==
    /\ last_op.op = "refresh_i2c"
    /\ is_i2c_leader # 0
    /\ written.sent["attack"].n >= 2
    /\ written.sent["attack"].last = 300
    /\ written.sent["decay"].n = 0
    /\ TxoCommands(FlushOutput, TO_ENV_ATT) = <<300>>

\* ---------------------------------------------------------------------------
\* claims about the timed events (SpecTimer)

\* the TIMED_EVENTs a registration has produced when it is `age` ticks old
ExpectedFires(age, ms, repeat) ==
    IF repeat # 0 THEN age \div ms ELSE IF age >= ms THEN 1 ELSE 0

\* the timer of the observed index is in the list of running timers
Running == event_timers[TimerIndex].linked

\* C6: when add_timed_event(i, ms2, r2) replaces a registration that has not
\* fired yet, the TIMED_EVENTs delivered since are exactly those of the
\* second registration: none before ms2 ticks after the second call, one at
\* ms2, then one every ms2 if r2 = 1 and no more if r2 = 0; the index never
\* has more than one timer, so a tick delivers at most one TIMED_EVENT(i)
C6_ReAddReplaces ==
    /\ (reg.live /\ reg.clean /\ reg.replaced)
       => /\ reg.total = ExpectedFires(reg.age, reg.ms, reg.repeat)
          /\ Running <=> (reg.repeat # 0 \/ reg.age < reg.ms)
    /\ Len(TimedEvents(out)) <= 1

\* a repeating registration replaced one that was due earlier, and has fired
\* twice, ms2 and 2 * ms2 ticks after the second call
C6_Witness ==
    /\ reg.live /\ reg.clean /\ reg.replaced
    /\ reg.old < reg.ms
    /\ reg.repeat # 0
    /\ reg.age = 2 * reg.ms
    /\ reg.total = 2
    /\ last_op.op = "process_timers"
    /\ Len(TimedEvents(out)) = 1

\* C9: a one-shot timer is removed when it fires, before TIMED_EVENT is
\* delivered, and produces exactly one TIMED_EVENT; a repeating timer
\* produces one every period while it is not stopped; after
\* stop_timed_event no TIMED_EVENT of the index is delivered until the index
\* is added again
C9_OneShotRepeatStop ==
    /\ (reg.live /\ reg.clean /\ reg.repeat = 0)
       => /\ reg.total = (IF reg.age >= reg.ms THEN 1 ELSE 0)
          /\ reg.age >= reg.ms => ~Running
          /\ (last_op.op = "process_timers" /\ reg.age = reg.ms)
             => /\ [i \in 1..Len(calls) |-> calls[i].fn] = <<"timer_remove", "control_event">>
                /\ Len(TimedEvents(out)) = 1
    /\ (reg.live /\ reg.clean /\ reg.repeat # 0)
       => /\ reg.total = reg.age \div reg.ms
          /\ Running
    /\ (reg.added /\ ~reg.live)
       => /\ reg.fires = 0
          /\ ~Running
          /\ TimedEvents(out) = <<>>

\* a repeating timer fired twice, was stopped, and as many ticks as its
\* period have passed since without a TIMED_EVENT
C9_Witness ==
    /\ reg.added /\ ~reg.live
    /\ reg.repeat # 0
    /\ reg.clean
    /\ reg.total = 2
    /\ reg.age - reg.stopped_at >= reg.ms
    /\ reg.fires = 0
    /\ last_op.op = "process_timers"

\* C10: update_timer_interval delivers nothing and starts nothing: the timer
\* runs exactly when a deadline set by add_timed_event or by a repeating
\* fire is pending; a tick delivers TIMED_EVENT exactly when that deadline,
\* which the update left where it was, is reached, and the deadline after a
\* fire is set from the interval last given
C10_UpdateKeepsDeadline ==
    /\ last_op.op = "update_timer_interval" => out = <<>>
    /\ Running <=> reg.due > 0
    /\ Running => event_timers[TimerIndex].ticksRemain = reg.due
    /\ last_op.op = "process_timers"
       => Len(TimedEvents(out)) = (IF reg.expect THEN 1 ELSE 0)

\* an update with another interval found a deadline pending; the timer has
\* fired twice since, at the old deadline and one new interval later
C10_Witness ==
    /\ reg.updated
    /\ reg.live
    /\ reg.after = 2
    /\ reg.expect
    /\ last_op.op = "process_timers"
    /\ Len(TimedEvents(out)) = 1

\* ---------------------------------------------------------------------------
\* claims about the bus role (SpecBus)

\* the bus transfers among output actions
Transfers(actions) ==
    SelectSeq(actions, LAMBDA m : m.kind = "i2c" \/ m.kind = "i2c_rx")

\* C11: an operation that starts while the module is not bus leader (a note
\* on or off, a raw setter, a flush, a read, a role change) produces no bus
\* transfer, and every _i2c_leader_tx and _i2c_leader_rx it calls returns 0
\* without calling the primitive of the library.
C11_FollowerIsSilent ==
    [][is_i2c_leader = 0 =>
          /\ Transfers(out') = <<>>
          /\ \A i \in DOMAIN bus' : ~bus'[i].called /\ bus'[i].ret = 0]_vars

\* voice 0 is mapped to a bus output, the module is not leader and a note on
\* has made its calls of _i2c_leader_tx
C11_Witness ==
    /\ is_i2c_leader = 0
    /\ last_op.op = "note_on_v"
    /\ last_op.args[3] # 0
    /\ Len(bus) >= 3
    /\ \E d \in 1..(MAX_DEVICE_COUNT - 1) : _is_voice_mapped(0, d, 0)
    /\ Transfers(out) = <<>>

\* ---------------------------------------------------------------------------
\* claims about the main loop (SpecLoop)

\* the interval of a polled subsystem
IntervalOf(s) ==
    CASE s = "adc_convert" -> ADC_POLL_INTERVAL
      [] s = "poll_inputs" -> INPUTS_POLL_INTERVAL
      [] s = "midi_read" -> MIDI_POLL_INTERVAL
      [] s = "process_hid" -> HID_POLL_INTERVAL
      [] s = "refresh_i2c" -> I2C_REFRESH_INTERVAL

\* C12: a polled subsystem that has run at tick t does not run again until
\* the tick count has advanced by more than its interval, whatever the value
\* of the tick count: between any two consecutive runs of a subsystem the
\* tick count advanced by more than the interval.
C12_PollsKeepTheirInterval ==
    \A s \in DOMAIN polled : polled[s].n >= 2 => polled[s].gap > IntervalOf(s)

\* the positions of the output actions of a kind
Positions(actions, kinds) == {i \in DOMAIN actions : actions[i].kind \in kinds}

\* C13: an iteration of the loop of main makes its pass of
\* process_system_events and then takes at most one event from the queue,
\* the oldest, and runs its handler: what the pass emits precedes what the
\* handler emits, and the events behind the first stay queued in order. An
\* event of a type without a dedicated handler, or no event, changes no state
\* but that of the pass and delivers nothing to process_event.
C13_OneEventPerIteration ==
    [][last_op'.op = "main" =>
          /\ events' = IF events = <<>> THEN <<>> ELSE Tail(events)
          /\ \A i \in Positions(out', {"event"}) :
                \A j \in Positions(out', {"poll", "i2c"}) : j < i
          /\ (events = <<>> \/ Head(events).type \notin DOMAIN DedicatedHandlers) =>
                /\ Positions(out', {"event"}) = {}
                /\ UNCHANGED <<routing, last_pitch, transposes, max_volumes, txo_mode,
                               cv_values, i2c_role, jf_mode, timers, tcTicks,
                               connections>>]_vars

\* two events were queued and an iteration served the first, of a type
\* without a dedicated handler, after the flush ran in its pass
C13_Witness ==
    /\ last_op = Op("main", <<"kEventKeyTimer">>)
    /\ Len(events) = 1
    /\ "refresh_i2c" \in PollsOf(out)

\* ---------------------------------------------------------------------------
\* claims about the raw setters (SpecBus)

\* C14: set_jf_mode(mode) treats every non-zero mode as 1: after the call the
\* tracked Just Friends mode is 1 if and only if mode is not 0, and a JF_MODE
\* command sent by the call carries that value.
C14_NonZeroModeIsOne ==
    last_op.op = "set_jf_mode" =>
        LET mode == IF last_op.args[1] # 0 THEN 1 ELSE 0
        IN  /\ jf_mode = mode
            /\ \A i \in DOMAIN out :
                  out[i].kind = "i2c" => out[i].data = <<JF_MODE, mode>>

\* ---------------------------------------------------------------------------
\* claims about note dispatch (SpecBus)

\* C15: note_on_v and note_off with a voice of 32 or more change no state,
\* last_pitch of every voice included, and produce no output action.
C15_VoiceOutOfRangeIsNoOp ==
    [][(/\ last_op'.op \in {"note_on_v", "note_off"}
        /\ last_op'.args[1] >= MAX_VOICES_COUNT) =>
          /\ out' = <<>>
          /\ calls' = <<>>
          /\ bus' = <<>>
          /\ UNCHANGED <<routing, last_pitch, transposes, max_volumes, scheduler,
                         txo_mode, txo_refresh, cv_values, i2c_role, jf_mode,
                         timers>>]_vars

\* a note on with a voice out of range was called while the module leads the
\* bus, voice 0 is mapped to a bus output and sounds at another pitch
C15_Witness ==
    /\ last_op.op = "note_on_v"
    /\ last_op.args[1] >= MAX_VOICES_COUNT
    /\ last_op.args[3] # 0
    /\ is_i2c_leader = 1
    /\ \E d \in 1..(MAX_DEVICE_COUNT - 1) : _is_voice_mapped(0, d, 0)
    /\ last_pitch[0] # 0
    /\ out = <<>>

\* ---------------------------------------------------------------------------
\* claims about the conversions (SpecConvert)

\* C16: note_to_pitch is non-decreasing over the notes 0..127 and
\* pitch_to_note is non-decreasing over the pitches 0..16383: of two
\* neighbouring arguments the larger never converts to the smaller result.
C16_ConversionsAreMonotonic ==
    (conv.done /\ conv.fn \in {"note_to_pitch", "pitch_to_note"}) =>
        conv.res[1] <= conv.res[2]

\* C17: for every note n in 0..127, pitch_to_note(note_to_pitch(n)) differs
\* from n by at most 1.
C17_RoundTripWithinOne ==
    (conv.done /\ conv.fn = "round_trip") =>
        /\ conv.res[1] - conv.args[1] <= 1
        /\ conv.args[1] - conv.res[1] <= 1

\* C18: for volume and max volume in 0..16383 the scaled volume of the
\* encoders is floor(volume * max volume / 16383), the product staying below
\* 2^32; it lies in 0..max volume and equals volume when max volume is 16383.
C18_ScaledVolume ==
    (conv.done /\ conv.fn = "ScaleVolume") =>
        LET volume == conv.args[1]
            max_volume == conv.args[2]
            vol == conv.res[1]
        IN  /\ (volume * max_volume) \div 65536 < 65536
            /\ vol * MAX_LEVEL <= volume * max_volume
            /\ volume * max_volume < (vol + 1) * MAX_LEVEL
            /\ 0 <= vol /\ vol <= max_volume
            /\ max_volume = MAX_LEVEL => vol = volume

\* a volume whose product with the ceiling does not fit 16 bits was scaled to
\* a value strictly between 0 and the ceiling
C18_Witness ==
    /\ conv.done
    /\ conv.fn = "ScaleVolume"
    /\ conv.args = <<8192, 8191>>
    /\ conv.res[1] > 0
    /\ conv.res[1] < 8191

\* ---------------------------------------------------------------------------
\* claims about the pitch of a voice (SpecPitch)

\* the encoder calls that carry a pitch
PitchCalls(cs) == SelectSeq(cs, LAMBDA c : c.fn # "_set_txo_gate" /\ c.fn # "_set_txo_cv")

\* C19: every encoder call of note_off(v) carries the pitch of the most
\* recent note_on_v of voice v, 0 if there has been none, whatever the volume
\* of that note on and whether or not the voice reached an output then; and
\* note_off changes last_pitch of no voice, a note on that of its voice only.
C19_NoteOffUsesLastPitch ==
    /\ last_op.op = "note_off" =>
          \A i \in DOMAIN PitchCalls(calls) :
              PitchCalls(calls)[i].args[2] = played[last_op.args[1]].pitch
    /\ \A v \in 0..(MAX_VOICES_COUNT - 1) : last_pitch[v] = played[v].pitch

\* voice 0 was played with volume 0 at pitch 2000 while it reached no output,
\* was mapped afterwards and released; voice 1 has another pitch
C19_Witness ==
    /\ last_op = Op("note_off", <<0>>)
    /\ played[0] = [pitch |-> 2000, volume |-> 0, mapped |-> FALSE]
    /\ played[1].pitch = 1000
    /\ Len(calls) = 2
    /\ \A i \in DOMAIN calls : calls[i].args[2] = 2000

\* ---------------------------------------------------------------------------
\* claims about the transposes (SpecTranspose)

\* the fixed offset a family adds to the pitch
OffsetOf(device) ==
    CASE device \in {VOICE_ER301, VOICE_JF, VOICE_DISTING_EX} -> -3277
      [] device = VOICE_TXO_NOTE -> 4915
      [] OTHER -> 0

\* the 16-bit value of the two bytes at position i of a command
Word(data, i) == S16(data[i] * 256 + data[i + 1])

\* the pitch values the output actions carry to a target: the CV written, the
\* first CV of an ER-301 output, the oscillator pitch of a TELEXo voice, the
\* CV of a TELEXo CV/gate output
CarriedPitch(t, actions) ==
    LET Carries(m) ==
            /\ m.via = t
            /\ CASE t[1] = VOICE_CV_GATE -> m.kind = "cv"
                 [] t[1] = VOICE_ER301 -> m.kind = "i2c" /\ m.data[1] = TO_CV_SET
                                          /\ m.data[2] = t[2]
                 [] t[1] = VOICE_TXO_NOTE -> m.kind = "i2c" /\ m.data[1] = TO_OSC_SET
                 [] t[1] = VOICE_TXO_CV_GATE -> m.kind = "i2c" /\ m.data[1] = TO_CV_SET
                 [] OTHER -> FALSE
        carrying == SelectSeq(actions, Carries)
    IN  [i \in DOMAIN carrying |->
            IF carrying[i].kind = "cv" THEN carrying[i].data[1]
            ELSE Word(carrying[i].data, 3)]

\* C20: the pitch a note on carries to a mapped output o of family f is the
\* pitch of the note plus the transpose last set for (f, o), 0 by default,
\* plus the fixed offset of the family, for the TELEXo CV/gate family as for
\* the others.
C20_TransposeApplies ==
    (last_op.op = "note_on_v" /\ is_i2c_leader = 1) =>
        \A t \in TransposeFamilies \X {0} :
            _is_voice_mapped(0, t[1], t[2]) =>
                CarriedPitch(t, out) =
                    <<S16(last_op.args[2] + transposed[t] + OffsetOf(t[1]))>>

\* ---------------------------------------------------------------------------
\* claims about the max volumes (SpecVolume)

\* the velocities the note-on messages carry to a target of a MIDI family
CarriedVolume(t, actions) ==
    LET Carries(m) ==
            /\ m.via = t
            /\ m.kind = "i2c"
            /\ \/ m.data[1] = 79 /\ m.data[2] >= 144
               \/ m.data[1] = 20
        carrying == SelectSeq(actions, Carries)
    IN  [i \in DOMAIN carrying |-> carrying[i].data[4]]

\* C21: the max volume that scales a note dispatched to output o of family f
\* is the one last set with set_output_max_volume(f, o, .), MAX_LEVEL by
\* default: setting the max volume of one family never changes what is sent
\* to an output of another family.
C21_MaxVolumePerOutput ==
    (last_op.op = "note_on_v" /\ is_i2c_leader = 1) =>
        \A t \in VolumeFamilies \X {0} :
            _is_voice_mapped(0, t[1], t[2]) =>
                CarriedVolume(t, out) =
                    <<U8(U16(ScaleVolume(last_op.args[3], ceilings[t])) \div 128)>>

\* ---------------------------------------------------------------------------
\* claims about the MIDI families (SpecMidi)

\* the channel and the note number of the note messages sent to a target of a
\* MIDI family: the disting EX carries the channel in the low half of the MIDI
\* status byte, the i2c2midi in a byte of its own
NoteKeys(t, actions) ==
    LET sent == SelectSeq(actions, LAMBDA m : m.via = t /\ m.kind = "i2c")
    IN  [i \in DOMAIN sent |->
            [channel |-> IF sent[i].data[1] = 79 THEN sent[i].data[2] % 16
                         ELSE sent[i].data[2],
             note |-> sent[i].data[3]]]

\* C22: with routing, transposes and max volumes unchanged in between, the
\* note off a MIDI family receives on note_off(v) carries the channel and
\* the note number of the note on of the preceding note_on_v(v, p, vol), and
\* that note number is pitch_to_note(p + transpose).
C22_NoteOffMatchesNoteOn ==
    [][(/\ last_op.op = "note_on_v"
        /\ last_op'.op = "note_off"
        /\ is_i2c_leader = 1)
       => \A t \in MidiFamilies \X {0} :
             _is_voice_mapped(0, t[1], t[2]) =>
                 /\ Len(NoteKeys(t, out)) = 1
                 /\ NoteKeys(t, out') = NoteKeys(t, out)
                 /\ NoteKeys(t, out)[1].note =
                        U8(pitch_to_note(S16(last_op.args[2] + transposed[t])))]_vars

\* ---------------------------------------------------------------------------
\* claims about the disting EX (SpecDisting)

\* the messages a dispatch sent to an output of the disting EX
DistingSent(o, actions) ==
    SelectSeq(actions, LAMBDA m : m.via = <<VOICE_DISTING_EX, o>> /\ m.kind = "i2c")

\* the dispatch started a note on the output: it sent a note on (0x69)
DistingStarted(o, actions) ==
    \E i \in DOMAIN DistingSent(o, actions) : DistingSent(o, actions)[i].data[1] = 105

\* C23: a disting EX dispatch with a scaled volume other than zero sends a
\* note off (0x6A) immediately before the pitch (0x68) and the note on (0x69),
\* to the same device and channel, and the note off carries the note number
\* of the note played before on that output.
C23_PreviousNoteIsStopped ==
    [][(/\ last_op.op = "note_on_v"
        /\ last_op'.op = "note_on_v"
        /\ is_i2c_leader = 1)
       => \A o \in DistingOutputs :
             (DistingStarted(o, out) /\ DistingStarted(o, out')) =>
                 LET before == DistingSent(o, out)
                     now == DistingSent(o, out')
                 IN  /\ Len(now) = 3
                     /\ now[1].data[1] = 106
                     /\ now[2].data[1] = 104
                     /\ now[3].data[1] = 105
                     /\ \A i \in 1..3 : /\ now[i].addr = now[1].addr
                                        /\ now[i].data[2] = now[1].data[2]
                     /\ now[1].data[3] = before[Len(before)].data[3]]_vars

\* ---------------------------------------------------------------------------
\* claims about the TELEXo modes (SpecTxo)

\* C24: the mode setup commands of a TELEXo output are sent only when the
\* mode requested differs from the one tracked in txo_mode: a request for
\* the mode the output is in sends nothing on the bus.
C24_SameModeIsSilent ==
    [][(/\ last_op'.op = "set_txo_mode"
        /\ last_op'.args[1] < MAX_TXO_OUTPUT_COUNT
        /\ txo_mode[last_op'.args[1]] = last_op'.args[2])
       => out' = <<>>]_vars

\* the commands sent to a TELEXo output, in order
TxoSequence(o, actions) ==
    LET sent == SelectSeq(actions, LAMBDA m :
                    /\ m.kind = "i2c"
                    /\ m.addr = <<"TELEXO", o \div 4>>
                    /\ m.data[2] = o % 4)
    IN  [i \in DOMAIN sent |-> sent[i].data[1]]

\* the mode setup command is sent, and before every other command
SetupComesFirst(commands) ==
    /\ commands # <<>>
    /\ commands[1] = TO_ENV_ACT
    /\ \A i \in 2..Len(commands) : commands[i] # TO_ENV_ACT

CeilingOf(device) ==
    CASE device = VOICE_CV_GATE -> MAX_CV_COUNT
      [] device = VOICE_JF -> MAX_JF_OUTPUT_COUNT
      [] device = VOICE_DISTING_EX -> MAX_DISTING_EX_OUTPUT_COUNT
      [] OTHER -> MAX_ER301_OUTPUT_COUNT

\* C26: a voice can be mapped with map_voice to every output below the count
\* of outputs of its family (16 for the ER-301, the TELEXo and the MIDI
\* families, 32 for the disting EX), and the note_on_v or note_off that
\* follows invokes the encoder of the family for that output.
C26_EveryOutputIsReached ==
    [][(/\ last_op.op = "map_voice"
        /\ last_op.args[4] = 1
        /\ last_op.args[3] < CeilingOf(last_op.args[2])
        /\ last_op'.op \in {"note_on_v", "note_off"})
       => \E i \in DOMAIN calls' :
             /\ calls'[i].device = last_op.args[2]
             /\ calls'[i].output = last_op.args[3]]_vars

\* ---------------------------------------------------------------------------
\* claims about the failing outputs (SpecFailing)

\* C27: an output that fails does not stop the dispatch: when the encoder of
\* a mapped output rejects it, or the bus transaction of an output is
\* dropped, note_on_v and note_off still invoke the encoder of every other
\* mapped output of the voice whose family is not muted.
C27_FailingOutputDoesNotStopDispatch ==
    (last_op.op \in {"note_on_v", "note_off"}) =>
        \A t \in FailingTargets \cup {<<VOICE_CV_GATE, 0>>} :
            /\ _is_voice_mapped(0, t[1], t[2]) => Len(CallsFor(t)) = 1
            /\ ~_is_voice_mapped(0, t[1], t[2]) => CallsFor(t) = <<>>

\* a note was played as follower on a voice mapped to the two rejected outputs
\* and to outputs of three bus families: five encoders and more were invoked
\* and nothing but the CV and the gate of output 0 was written
C27_Witness ==
    /\ last_op.op = "note_on_v"
    /\ is_i2c_leader = 0
    /\ \A t \in FailingTargets : _is_voice_mapped(0, t[1], t[2])
    /\ Len(calls) = 6
    /\ \A i \in DOMAIN out : out[i].via = <<VOICE_CV_GATE, 0>> \/ out[i].kind = "gate"

\* ---------------------------------------------------------------------------
\* claims about the scan of the flush (SpecScan)

\* the batched parameters in the order of the scan: outputs ascending, and
\* attack, decay, waveform within an output
ScanOrder ==
    [i \in 1..(3 * MAX_TXO_OUTPUT_COUNT) |->
        [output |-> (i - 1) \div 3,
         field |-> <<"attack", "decay", "waveform">>[((i - 1) % 3) + 1]]]

ScanDirty(refresh, e) ==
    CASE e.field = "attack" -> refresh[e.output].attack_dirty
      [] e.field = "decay" -> refresh[e.output].decay_dirty
      [] e.field = "waveform" -> refresh[e.output].waveform_dirty

ScanValue(refresh, e) ==
    CASE e.field = "attack" -> refresh[e.output].attack
      [] e.field = "decay" -> refresh[e.output].decay
      [] e.field = "waveform" -> refresh[e.output].waveform

ScanCommand(field) ==
    CASE field = "attack" -> TO_ENV_ATT
      [] field = "decay" -> TO_ENV_DEC
      [] field = "waveform" -> TO_OSC_WAVE

\* the commands a flush of the batch `refresh` is to send: one per dirty
\* parameter, with the pending value, in the order of the scan
ScanExpected(refresh) ==
    LET dirty == SelectSeq(ScanOrder, LAMBDA e : ScanDirty(refresh, e) # 0)
    IN  [i \in DOMAIN dirty |->
            [addr |-> <<"TELEXO", dirty[i].output \div 4>>,
             data |-> <<ScanCommand(dirty[i].field), dirty[i].output % 4,
                        Hi(ScanValue(refresh, dirty[i])),
                        Lo(ScanValue(refresh, dirty[i]))>>]]

\* the bus transactions among output actions, as address and bytes
ScanSent(actions) ==
    LET sent == SelectSeq(actions, LAMBDA m : m.kind = "i2c")
    IN  [i \in DOMAIN sent |-> [addr |-> sent[i].addr, data |-> sent[i].data]]

\* the write named by an operation is to this parameter
ScanWritten(op, e) ==
    /\ op.args[1] = e.output
    /\ \/ op.op = "set_txo_attack" /\ e.field = "attack"
       \/ op.op = "set_txo_decay" /\ e.field = "decay"
       \/ op.op = "set_txo_waveform" /\ e.field = "waveform"

\* C28: refresh_i2c scans the TELEXo outputs 0..15 in ascending order and,
\* per output, attack then decay then waveform; as leader it sends exactly
\* one command per dirty parameter, with the pending value, and it leaves
\* every dirty flag clear, so that a second flush without a write in between
\* sends nothing; a write to a parameter changes neither the dirty flag nor
\* the pending value of another parameter or output.
C28_FlushScansInOrder ==
    [][/\ (last_op'.op = "refresh_i2c") =>
              /\ (is_i2c_leader = 1) => ScanSent(out') = ScanExpected(txo_refresh)
              /\ \A i \in DOMAIN ScanOrder :
                    /\ ScanDirty(txo_refresh', ScanOrder[i]) = 0
                    /\ ScanValue(txo_refresh', ScanOrder[i]) =
                           ScanValue(txo_refresh, ScanOrder[i])
              /\ (last_op.op = "refresh_i2c") => out' = <<>>
       /\ (last_op'.op \in {"set_txo_attack", "set_txo_decay", "set_txo_waveform"}) =>
              \A i \in DOMAIN ScanOrder :
                  ~ScanWritten(last_op', ScanOrder[i]) =>
                      /\ ScanDirty(txo_refresh', ScanOrder[i]) =
                             ScanDirty(txo_refresh, ScanOrder[i])
                      /\ ScanValue(txo_refresh', ScanOrder[i]) =
                             ScanValue(txo_refresh, ScanOrder[i])]_vars

\* a flush as leader sent the attack and the waveform of output 2 and then
\* the attack of output 5, and cleared their flags
C28_Witness ==
    /\ last_op.op = "refresh_i2c"
    /\ is_i2c_leader = 1
    /\ ScanSent(out) =
           <<[addr |-> <<"TELEXO", 0>>, data |-> <<TO_ENV_ATT, 2, 0, 10>>],
             [addr |-> <<"TELEXO", 0>>, data |-> <<TO_OSC_WAVE, 2, 1, 44>>],
             [addr |-> <<"TELEXO", 1>>, data |-> <<TO_ENV_ATT, 1, 1, 44>>]>>
    /\ txo_refresh[2].attack_dirty = 0
    /\ txo_refresh[5].attack_dirty = 0

\* ---------------------------------------------------------------------------
\* claims about the frame of map_voice (SpecRouting)

\* C29: map_voice(v, f, o, on) with arguments it accepts changes the mapping
\* of the triple (v, f, o) alone: the routing bit of every other (voice,
\* family, output) and every mute flag are as before, for every output index
\* map_voice accepts.
C29_MapChangesOneTriple ==
    (/\ last_op.op = "map_voice"
     /\ last_op.args[1] < MAX_VOICES_COUNT
     /\ last_op.args[2] < MAX_DEVICE_COUNT
     /\ last_op.args[3] <= MAX_OUTPUT_COUNT)
    => /\ device_on = pre1[2]
       /\ \A v \in 0..(MAX_VOICES_COUNT - 1), d \in 0..(MAX_DEVICE_COUNT - 1),
             o \in 0..(MAX_OUTPUT_COUNT - 1) :
             <<v, d, o>> # <<last_op.args[1], last_op.args[2], last_op.args[3]>> =>
                 (_is_voice_mapped(v, d, o) <=> WasVoiceMapped(pre1, v, d, o))

\* ---------------------------------------------------------------------------
\* claims about the frames received (SpecFrames)

\* C30: the length process_event receives never exceeds
\* MAX_EVENT_DATA_LENGTH and never exceeds the number of bytes written to
\* event_data for the event, for I2C_RECEIVED with a frame of more than 16
\* bytes as for every other event.
C30_LengthWithinEventData ==
    \A i \in DOMAIN out :
        out[i].kind = "event" =>
            /\ out[i].addr[3] <= MAX_EVENT_DATA_LENGTH
            /\ out[i].addr[3] <= Len(out[i].data)

\* ---------------------------------------------------------------------------
\* claims about the raw setters (SpecSetters)

\* the number of outputs of the family a raw setter addresses
SetterCount(op) ==
    CASE op \in {"set_er301_cv", "set_er301_gate"} -> MAX_ER301_OUTPUT_COUNT
      [] op = "set_jf_gate" -> MAX_JF_OUTPUT_COUNT
      [] OTHER -> MAX_TXO_OUTPUT_COUNT

RawSetters ==
    {"set_er301_cv", "set_er301_gate", "set_jf_gate", "set_txo_cv", "set_txo_gate",
     "set_txo_mode", "set_txo_attack", "set_txo_decay", "set_txo_waveform"}

\* C31: a raw setter called with an output at or above the number of outputs
\* of its family (16 for the ER-301, 6 for Just Friends, 16 for the TELEXo)
\* sends nothing on the bus and changes no state.
C31_SetterOutOfRangeIsNoOp ==
    [][(/\ last_op'.op \in RawSetters
        /\ last_op'.args[1] >= SetterCount(last_op'.op))
       => /\ out' = <<>>
          /\ UNCHANGED <<routing, last_pitch, transposes, max_volumes, txo_mode,
                         txo_refresh, cv_values, i2c_role, jf_mode, timers>>]_vars

\* ---------------------------------------------------------------------------
\* claims about the addressing (SpecAddress)

\* C32: a TELEXo command for output o < 16 goes to the address TELEXO +
\* (o div 4) with port o mod 4, a disting EX note message for output o < 32
\* to the address DISTING_EX_1 + (o div 8) with channel o mod 8, and a 16-bit
\* value is sent high byte first.
C32_UnitAndPort ==
    \A i \in DOMAIN out :
        out[i].kind = "i2c" =>
            /\ (last_op.op \in {"set_txo_gate", "set_txo_cv"}) =>
                   /\ out[i].addr = <<"TELEXO", last_op.args[1] \div 4>>
                   /\ out[i].data[2] = last_op.args[1] % 4
                   /\ (last_op.op = "set_txo_cv" /\ out[i].data[1] = TO_CV_SET) =>
                          out[i].data[3] * 256 + out[i].data[4] = U16(last_op.args[2])
            /\ (out[i].via[1] = VOICE_DISTING_EX) =>
                   /\ out[i].addr = <<"DISTING_EX_1", out[i].via[2] \div 8>>
                   /\ out[i].data[2] = out[i].via[2] % 8
                   /\ (out[i].data[1] = 104) =>
                          out[i].data[4] * 256 + out[i].data[5] =
                              U16(last_op.args[2] - 3277)

\* the CV of output 15 was set to -2: the command went to the fourth TELEXo,
\* port 3, with the bytes 0xFF 0xFE
C32_Witness ==
    /\ last_op = Op("set_txo_cv", <<15, -2>>)
    /\ is_i2c_leader = 1
    /\ out[Len(out)].addr = <<"TELEXO", 3>>
    /\ out[Len(out)].data = <<TO_CV_SET, 3, 255, 254>>

\* ---------------------------------------------------------------------------
\* claims about the timer indices (SpecRange)

TimerOperations == {"add_timed_event", "stop_timed_event", "update_timer_interval"}

\* C33: add_timed_event, stop_timed_event and update_timer_interval act only
\* on the indices 0..TIMED_EVENT_COUNT-1: for an index from 100 to 255 they
\* return without an access to a timer slot and without registering a callback.
C33_IndexOutOfRangeIsIgnored ==
    [][(last_op'.op \in TimerOperations /\ last_op'.args[1] >= TIMED_EVENT_COUNT) =>
           /\ event_timers' = event_timers
           /\ calls' = <<>>]_vars

\* ---------------------------------------------------------------------------
\* claims about flushes run as follower (SpecFlush)

\* C34: refresh_i2c clears a dirty flag whether or not its command was
\* transmitted: a flush run while the module is not I2C leader emits nothing
\* and clears every dirty flag, and a later flush run as leader sends no
\* command for a parameter that a follower flush took and that was not
\* written again.
C34_FollowerFlushDropsValues ==
    last_op.op = "refresh_i2c" =>
        /\ \A o \in 0..(MAX_TXO_OUTPUT_COUNT - 1) :
              /\ txo_refresh[o].attack_dirty = 0
              /\ txo_refresh[o].decay_dirty = 0
              /\ txo_refresh[o].waveform_dirty = 0
        /\ is_i2c_leader = 0 => out = <<>>
        /\ is_i2c_leader # 0 =>
              \A f \in {"attack", "decay", "waveform"} :
                  written.dropped[f] =>
                      TxoCommands(FlushOutput, FlushCommand(f)) = <<>>

\* the attack was written and flushed as follower, the module became leader,
\* the decay was written, and the leader's flush sent the decay alone
C34_Witness ==
    /\ last_op.op = "refresh_i2c"
    /\ is_i2c_leader # 0
    /\ written.dropped["attack"]
    /\ ~written.dropped["decay"]
    /\ txo_refresh[FlushOutput].attack = 300
    /\ TxoCommands(FlushOutput, TO_ENV_ATT) = <<>>
    /\ TxoCommands(FlushOutput, TO_ENV_DEC) = <<300>>

\* ---------------------------------------------------------------------------
\* claims about the start (SpecBoot)

\* the calls of process_event among output actions
Delivered(actions) == SelectSeq(actions, LAMBDA m : m.kind = "event")

\* the timer of the index comes due at the next tick
DueNow(index) == event_timers[index].linked /\ event_timers[index].ticksRemain = 1

\* C35: process_event is not called before init_control has returned: what
\* is handled while control_initialized is 0 is dropped, and it is not
\* delivered later: a frame delivered is the frame just received, a
\* TIMED_EVENT delivered is that of a timer due at this tick, and a one-shot
\* timer that came due before is no longer running.
C35_NothingBeforeInitControl ==
    [][/\ control_initialized = 0 => Delivered(out') = <<>>
       /\ last_op'.op = "process_i2c" =>
             \A i \in DOMAIN Delivered(out') :
                 /\ i = 1
                 /\ Delivered(out')[i].addr[2] = I2C_RECEIVED
                 /\ Delivered(out')[i].data = last_op'.args[1]
       /\ last_op'.op = "process_timers" =>
             /\ \A i \in DOMAIN Delivered(out') :
                   /\ Delivered(out')[i].addr[2] = TIMED_EVENT
                   /\ DueNow(Delivered(out')[i].data[1])
             /\ (DueNow(TimerIndex) /\ event_timers[TimerIndex].repeat = 0) =>
                   ~event_timers'[TimerIndex].linked
       /\ last_op'.op \in {"initialize_control", "add_timed_event", "event_post"} =>
             Delivered(out') = <<>>]_vars

\* a one-shot timer registered in init_control came due before init_control
\* returned: event_timer_callback ran, nothing was delivered and the timer is
\* no longer running
C35_Witness ==
    /\ control_initialized = 0
    /\ last_op.op = "process_timers"
    /\ \E i \in DOMAIN calls : calls[i].fn = "control_event"
                               /\ calls[i].args = <<TIMED_EVENT, TimerIndex>>
    /\ out = <<>>
    /\ ~event_timers[TimerIndex].linked

\* ---------------------------------------------------------------------------
\* claims about the role changes (SpecRole)

\* the JF_MODE commands among output actions, as the modes they carry
JfModeCommands(actions) ==
    LET ms == SelectSeq(actions, LAMBDA m : /\ m.kind = "i2c"
                                            /\ m.addr = <<"JF_ADDR", 0>>
                                            /\ m.data[1] = JF_MODE)
    IN  [i \in 1..Len(ms) |-> ms[i].data[2]]

\* C36: when the leader becomes follower the leader flag is cleared before
\* the Just Friends mode is reset: the tracked jf_mode becomes 0 and no
\* JF_MODE command is transmitted, so that a later set_jf_mode(0) as leader
\* emits nothing; a JF_MODE command is emitted only when the requested mode
\* differs from the tracked one.
C36_FollowerResetsModeSilently ==
    [][/\ (last_op'.op = "set_as_i2c_follower" /\ is_i2c_leader # 0) =>
             /\ is_i2c_leader' = 0
             /\ jf_mode' = 0
             /\ out' = <<>>
       /\ last_op'.op = "set_jf_mode" =>
             /\ jf_mode' = last_op'.args[1] % 2
             /\ out' = <<>> \/ JfModeCommands(out') = <<last_op'.args[1] % 2>>
             /\ out' # <<>> <=> (is_i2c_leader # 0 /\ last_op'.args[1] % 2 # jf_mode)]_vars

\* Just Friends was put in mode 1 and the module became follower: the
\* tracked mode is 0 again and nothing was transmitted
C36_Witness ==
    /\ prev_op = Op("set_jf_mode", <<1>>)
    /\ last_op.op = "set_as_i2c_follower"
    /\ is_i2c_leader = 0
    /\ jf_mode = 0
    /\ out = <<>>

SentFor(t, actions) ==
    LET ms == SelectSeq(actions, LAMBDA m : m.via = t /\ m.kind = "i2c")
    IN  [i \in DOMAIN ms |-> ms[i].data]

\* the family received what it receives for a note off: Just Friends gate 0,
\* the disting EX no pitch and no note on, the MIDI families a note off
TreatedAsOff(device, ms) ==
    /\ ms # <<>>
    /\ CASE device = VOICE_JF -> ms[Len(ms)] = <<JF_TR, 1, 0>>
         [] device = VOICE_DISTING_EX -> \A i \in DOMAIN ms : ms[i][1] = 106
         [] device \in {VOICE_EX_MIDI_1, VOICE_EX_MIDI_CH} ->
                \A i \in DOMAIN ms : ms[i][1] = 79 /\ ms[i][2] \in 128..143
         [] device \in {VOICE_I2C2MIDI_1, VOICE_I2C2MIDI_CH} ->
                \A i \in DOMAIN ms : ms[i][1] = 21
         [] OTHER -> FALSE

\* the family received its gate-on or envelope-on command, and the volume 0
TreatedAsOn(device, ms) ==
    /\ ms # <<>>
    /\ CASE device = VOICE_ER301 ->
                /\ ms[Len(ms)] = <<TO_TR, 0, 0, 1>>
                /\ \E i \in DOMAIN ms : ms[i] = <<TO_CV_SET, MAX_ER301_OUTPUT_COUNT, 0, 0>>
         [] device = VOICE_TXO_NOTE ->
                /\ ms[Len(ms)] = <<TO_ENV, 0, 0, 1>>
                /\ \E i \in DOMAIN ms : ms[i] = <<TO_CV_SET, 0, 0, 0>>
         [] OTHER -> FALSE

\* C38: a note on whose volume is not 0 and whose volume scaled by the max
\* volume of the output truncates to 0 is treated as off by the Just Friends,
\* disting EX and MIDI encoders, and as on, with the volume 0, by the ER-301
\* and TELEXo note encoders.
C38_ScaledToZero ==
    (last_op.op = "note_on_v" /\ is_i2c_leader = 1) =>
        \A d \in QuietFamilies :
            (/\ _is_voice_mapped(0, d, 0)
             /\ ScaleVolume(last_op.args[3], ceilings[<<d, 0>>]) = 0) =>
                IF d \in {VOICE_ER301, VOICE_TXO_NOTE}
                THEN TreatedAsOn(d, SentFor(<<d, 0>>, out))
                ELSE TreatedAsOff(d, SentFor(<<d, 0>>, out))

\* ---------------------------------------------------------------------------
\* claims about the state after init_state (SpecBoot)

\* the routing bit of <<voice, device, output>> is set
RoutingBit(voice, device, output) ==
    <<VoiceMapsCell(voice, device, output \div 8), output % 8>> \in voice_maps

\* C39: after init_state voice i is mapped to the direct CV/gate output i for
\* every i below the larger of the hardware CV and gate output counts and no
\* other routing bit is set; every family is unmuted, every max volume is
\* 16383, every transpose and every last_pitch is 0, no dirty flag is set,
\* jf_mode is 0 and the module is not I2C leader.
C39_StateAfterInit ==
    last_op = NoOp =>
        /\ \A v \in 0..(MAX_VOICES_COUNT - 1), d \in 0..(MAX_DEVICE_COUNT - 1),
              o \in 0..(MAX_OUTPUT_COUNT - 1) :
              RoutingBit(v, d, o) <=>
                  /\ d = VOICE_CV_GATE
                  /\ o = v
                  /\ v < Max(HARDWARE_CV_OUTPUT_COUNT, HARDWARE_GATE_OUTPUT_COUNT)
        /\ Cardinality(voice_maps) =
              Max(HARDWARE_CV_OUTPUT_COUNT, HARDWARE_GATE_OUTPUT_COUNT)
        /\ \A d \in 0..(MAX_DEVICE_COUNT - 1) : device_on[d] = 1
        /\ \A i \in 1..Len(max_volumes) :
              \A o \in DOMAIN max_volumes[i] : max_volumes[i][o] = 16383
        /\ \A i \in 1..Len(transposes) :
              \A o \in DOMAIN transposes[i] : transposes[i][o] = 0
        /\ \A v \in 0..(MAX_VOICES_COUNT - 1) : last_pitch[v] = 0
        /\ \A o \in 0..(MAX_TXO_OUTPUT_COUNT - 1) :
              /\ txo_refresh[o].attack_dirty = 0
              /\ txo_refresh[o].decay_dirty = 0
              /\ txo_refresh[o].waveform_dirty = 0
        /\ jf_mode = 0
        /\ is_i2c_leader = 0

\* init_state has run and nothing else: voice 3 is routed to CV/gate output 3
\* and the application is not initialised yet
C39_Witness ==
    /\ last_op = NoOp
    /\ control_initialized = 0
    /\ RoutingBit(3, VOICE_CV_GATE, 3)
    /\ ~RoutingBit(4, VOICE_CV_GATE, 4)
    /\ er301_max_volume[0] = MAX_LEVEL

\* ---------------------------------------------------------------------------
\* claims about the grid keys (SpecGrid)

\* C40: GRID_KEY_HELD(x, y) is delivered only for the most recently pressed
\* key and only when GRID_HOLD_TIME has elapsed since that press with no
\* release of that key, no further press and no grid connect or disconnect
\* in between; at most one GRID_KEY_HELD is delivered per press, and the
\* release of another key does not cancel the pending hold.
C40_HoldOfLastKey ==
    /\ \A i \in DOMAIN HeldKeys(out) :
          /\ i = 1
          /\ HeldKeys(out)[i] = reg.key
          /\ reg.live
          /\ reg.age = GRID_HOLD_TIME
    /\ reg.fires <= 1
    /\ (reg.live /\ reg.age >= GRID_HOLD_TIME) => reg.fires = 1

\* key (1, 2) was pressed, another key was released, and GRID_HOLD_TIME
\* ticks after the press GRID_KEY_HELD(1, 2) is delivered
C40_Witness ==
    /\ last_op.op = "process_timers"
    /\ HeldKeys(out) = <<<<1, 2>>>>
    /\ reg.key = <<1, 2>>
    /\ reg.others > 0
    /\ reg.age = GRID_HOLD_TIME
    /\ ~grid_hold_timer.linked

====
